---------------------------- MODULE Spec2Model ----------------------------
(***************************************************************************)
(* Resilient multi-provider generation pipeline of the marketing video     *)
(* studio: the retry utility (utils/retry), the image / video / text       *)
(* providers with their primary -> fallback -> placeholder chain, the      *)
(* polling loops and the asset download.                                   *)
(*                                                                         *)
(* Three specifications share this module:                                 *)
(*   SpecDelay  calculateDelay applied to bounded inputs                   *)
(*   SpecRetry  retry(fn, options) against an arbitrary operation          *)
(*   Spec       one generateImage / generateVideo / generateScript call    *)
(* Each specification leaves the variables of the others untouched.        *)
(***************************************************************************)
EXTENDS Integers, Sequences, FiniteSets, TLC

(***************************************************************************)
(* Bounds of the model (not program constants).                            *)
(***************************************************************************)
\* Math.random() is drawn from {0/JitterDen, ..., (JitterDen-1)/JitterDen}
JitterDen == 4
\* largest attempt number handed to calculateDelay in SpecDelay
MaxDelayAttempt == 5
\* largest maxRetries of a caller-supplied policy in SpecRetry
MaxCustomRetries == 2

\* status checks of the polling loops (the source's defaults are 120 for
\* _veoWaitForCompletion, 180 for the video _replicateWaitForCompletion and
\* 60 for the image _replicateWaitForPrediction)
VeoMaxAttempts == 2
ReplicateVideoMaxAttempts == 2
ReplicateImageMaxAttempts == 2

\* requests the server handles in one run
MaxOps == 3

\* operations the tracker holds or is about to receive (SpecTracker)
MaxOperations == 3

\* delays are kept as integers in units of 1/Scale ms, so that
\* Math.random() * 0.3 * exponentialDelay is exact
Scale == 10 * JitterDen

Min(a, b) == IF a <= b THEN a ELSE b

RECURSIVE Pow(_, _)
Pow(b, e) == IF e <= 0 THEN 1 ELSE b * Pow(b, e - 1)

(***************************************************************************)
(* Errors.  An error is a record with a message and a code.  A message is  *)
(* a sequence of fragments; the patterns of the retryable lists are        *)
(* fragments too, so String.includes(pattern) is "some fragment of the     *)
(* lower-cased message equals the lower-cased pattern".                    *)
(***************************************************************************)
ToLowerCase(s) ==
  CASE s = "ECONNRESET" -> "econnreset"
    [] s = "ETIMEDOUT" -> "etimedout"
    [] s = "ENOTFOUND" -> "enotfound"
    [] s = "RESOURCE_EXHAUSTED" -> "resource_exhausted"
    [] s = "HTTP" -> "http"
    [] s = "Rate limit" -> "rate limit"
    [] s = "API key not valid" -> "api key not valid"
    [] s = "Veo operation" -> "veo operation"
    [] s = "Veo operation failed" -> "veo operation failed"
    [] s = "Replicate prediction" -> "replicate prediction"
    [] s = "No video URI in Veo response" -> "no video uri in veo response"
    [] s = "No video output from Kling" -> "no video output from kling"
    [] s = "No image data in Gemini response" -> "no image data in gemini response"
    [] s = "No output URL in Replicate response" -> "no output url in replicate response"
    [] s = "Failed to download video" -> "failed to download video"
    [] s = "Failed to parse" -> "failed to parse"
    [] s = "Kling Motion Control requires a reference image" -> "kling motion control requires a reference image"
    [] s = "Kling Motion Control requires a motion reference video" -> "kling motion control requires a motion reference video"
    [] s = "Script missing required sections" -> "script missing required sections"
    [] s = "Unknown error" -> "unknown error"
    [] OTHER -> s

Includes(fragments, p) == \E i \in DOMAIN fragments : ToLowerCase(fragments[i]) = p

\* the errors an operation can fail with, by name
ErrorOf(kind) ==
  CASE kind = "ECONNRESET" -> [message |-> <<"read", "ECONNRESET">>, code |-> "ECONNRESET"]
    [] kind = "ETIMEDOUT" -> [message |-> <<"connect", "ETIMEDOUT">>, code |-> "ETIMEDOUT"]
    [] kind = "RATE_LIMIT" -> [message |-> <<"Rate limit", "exceeded">>, code |-> ""]
    [] kind = "HTTP_429" -> [message |-> <<"HTTP", "429">>, code |-> ""]
    [] kind = "HTTP_500" -> [message |-> <<"HTTP", "500">>, code |-> ""]
    [] kind = "HTTP_502" -> [message |-> <<"HTTP", "502">>, code |-> ""]
    [] kind = "HTTP_503" -> [message |-> <<"HTTP", "503">>, code |-> ""]
    [] kind = "HTTP_504" -> [message |-> <<"HTTP", "504">>, code |-> ""]
    [] kind = "AUTH" -> [message |-> <<"API key not valid">>, code |-> ""]
    [] kind = "PARSE" -> [message |-> <<"Failed to parse">>, code |-> ""]
    [] kind = "VEO_TIMED_OUT" -> [message |-> <<"Veo operation", "timed out">>, code |-> ""]
    [] kind = "VEO_FAILED" -> [message |-> <<"Veo operation failed">>, code |-> ""]
    [] kind = "VEO_NO_URI" -> [message |-> <<"No video URI in Veo response">>, code |-> ""]
    [] kind = "REPLICATE_TIMED_OUT" -> [message |-> <<"Replicate prediction", "timed out">>, code |-> ""]
    [] kind = "REPLICATE_FAILED" -> [message |-> <<"Replicate prediction", "failed", "Unknown error">>, code |-> ""]
    [] kind = "REPLICATE_CANCELED" -> [message |-> <<"Replicate prediction", "canceled", "Unknown error">>, code |-> ""]
    [] kind = "KLING_NO_OUTPUT" -> [message |-> <<"No video output from Kling">>, code |-> ""]
    [] kind = "NO_IMAGE_DATA" -> [message |-> <<"No image data in Gemini response">>, code |-> ""]
    [] kind = "NO_OUTPUT_URL" -> [message |-> <<"No output URL in Replicate response">>, code |-> ""]
    [] kind = "DOWNLOAD_404" -> [message |-> <<"Failed to download video", "HTTP", "404">>, code |-> ""]
    [] kind = "DOWNLOAD_503" -> [message |-> <<"Failed to download video", "HTTP", "503">>, code |-> ""]
    [] kind = "MOTION_NO_IMAGE" -> [message |-> <<"Kling Motion Control requires a reference image">>, code |-> ""]
    [] kind = "MOTION_NO_VIDEO" -> [message |-> <<"Kling Motion Control requires a motion reference video">>, code |-> ""]
    [] kind = "NO_TEXT" -> [message |-> <<"No text in Gemini response">>, code |-> ""]
    [] kind = "SCRIPT_MISSING" -> [message |-> <<"Script missing required sections">>, code |-> ""]
    [] OTHER -> [message |-> <<kind>>, code |-> ""]

\* transient failures: connection reset, timeout, rate limit, HTTP 5xx
TransientErrors ==
  {"ECONNRESET", "ETIMEDOUT", "RATE_LIMIT", "HTTP_429",
   "HTTP_500", "HTTP_502", "HTTP_503", "HTTP_504"}

(***************************************************************************)
(* utils/retry                                                             *)
(***************************************************************************)
DEFAULT_OPTIONS ==
  [maxRetries |-> 3,
   initialDelayMs |-> 1000,
   maxDelayMs |-> 30000,
   backoffMultiplier |-> 2,
   retryableErrors |-> {"ECONNRESET", "ETIMEDOUT", "ENOTFOUND", "rate limit",
                        "quota exceeded", "429", "500", "502", "503", "504"}]

PROVIDER_RETRY_CONFIGS ==
  [gemini |->
     [maxRetries |-> 3,
      initialDelayMs |-> 2000,
      retryableErrors |-> {"rate limit", "quota exceeded", "429", "500", "503",
                           "RESOURCE_EXHAUSTED"}],
   replicate |->
     [maxRetries |-> 3,
      initialDelayMs |-> 1000,
      retryableErrors |-> {"rate limit", "429", "500", "503", "processing"}],
   default |-> DEFAULT_OPTIONS]

getRetryConfig(provider) ==
  IF provider \in {"gemini", "replicate"}
    THEN PROVIDER_RETRY_CONFIGS[provider]
    ELSE PROVIDER_RETRY_CONFIGS["default"]

\* const opts = { ...DEFAULT_OPTIONS, ...options }
MergeOptions(options) ==
  [k \in DOMAIN DEFAULT_OPTIONS |->
     IF k \in DOMAIN options THEN options[k] ELSE DEFAULT_OPTIONS[k]]

isRetryable(error, retryableErrors) ==
  LET errorString == error.message
      errorCode == error.code
  IN \E pattern \in retryableErrors :
       LET p == ToLowerCase(pattern)
       IN Includes(errorString, p) \/ (errorCode # "" /\ ToLowerCase(errorCode) = p)

calculateDelayUncapped(attempt, initialDelay, maxDelay, multiplier, rnd) ==
  LET exponentialDelay == initialDelay * Pow(multiplier, attempt - 1)
  IN exponentialDelay * Scale + rnd * 3 * exponentialDelay

\* result in units of 1/Scale ms; rnd / JitterDen is the value of Math.random()
calculateDelay(attempt, initialDelay, maxDelay, multiplier, rnd) ==
  LET exponentialDelay == initialDelay * Pow(multiplier, attempt - 1)
      jitter == rnd * 3 * exponentialDelay
  IN Min(exponentialDelay * Scale + jitter, maxDelay * Scale)

\* for (let attempt = 1; attempt <= opts.maxRetries + 1; attempt++)
LoopGuard(attempt, opts) == attempt <= opts.maxRetries + 1

CatchDecisionNoClassify(attempt, error, opts) ==
  IF attempt > opts.maxRetries THEN "break" ELSE "sleep"

CatchDecisionEarlyBreak(attempt, error, opts) ==
  IF attempt >= opts.maxRetries THEN "break"
  ELSE IF ~isRetryable(error, opts.retryableErrors) THEN "break"
  ELSE "sleep"

\* the catch block of retry(): "break" leaves the loop, "sleep" waits and
\* goes on with the next attempt
CatchDecision(attempt, error, opts) ==
  IF attempt > opts.maxRetries THEN "break"
  ELSE IF ~isRetryable(error, opts.retryableErrors) THEN "break"
  ELSE "sleep"

(***************************************************************************)
(* Providers (imageProvider, videoProvider, llmProvider)                   *)
(***************************************************************************)
PROVIDERS == [GEMINI |-> "gemini", REPLICATE |-> "replicate", PLACEHOLDER |-> "placeholder"]

\* this.retryConfig = config.retryConfig || getRetryConfig(this.provider);
\* the text provider always takes getRetryConfig('gemini')
RetryConfigOf(s) ==
  IF s.kind = "llm" THEN getRetryConfig("gemini") ELSE getRetryConfig(s.provider)

_getActiveProvider(s) ==
  IF ~s.useReal THEN PROVIDERS.PLACEHOLDER
  ELSE IF s.kind = "llm"
    THEN (IF s.geminiApiKey THEN PROVIDERS.GEMINI ELSE PROVIDERS.PLACEHOLDER)
  ELSE IF s.provider = PROVIDERS.GEMINI /\ s.geminiApiKey THEN PROVIDERS.GEMINI
  ELSE IF s.provider = PROVIDERS.REPLICATE /\ s.replicateApiKey THEN PROVIDERS.REPLICATE
  ELSE IF s.geminiApiKey THEN PROVIDERS.GEMINI
  ELSE IF s.replicateApiKey THEN PROVIDERS.REPLICATE
  ELSE PROVIDERS.PLACEHOLDER

\* this.name = active, set once by the constructor; the pipeline copies it
\* into shot.provider_config after every generation
_updateActiveInfo(s) == [name |-> _getActiveProvider(s)]

_getFallbackProviderSame(s, currentProvider) ==
  IF s.kind = "llm" THEN PROVIDERS.PLACEHOLDER ELSE currentProvider

_getFallbackProviderNoKeyCheck(s, currentProvider) ==
  IF s.kind = "llm" THEN PROVIDERS.PLACEHOLDER
  ELSE IF currentProvider = PROVIDERS.GEMINI THEN PROVIDERS.REPLICATE
  ELSE IF currentProvider = PROVIDERS.REPLICATE THEN PROVIDERS.GEMINI
  ELSE PROVIDERS.PLACEHOLDER

_getFallbackProvider(s, currentProvider) ==
  IF s.kind = "llm" THEN PROVIDERS.PLACEHOLDER
  ELSE IF currentProvider = PROVIDERS.GEMINI /\ s.replicateApiKey THEN PROVIDERS.REPLICATE
  ELSE IF currentProvider = PROVIDERS.REPLICATE /\ s.geminiApiKey THEN PROVIDERS.GEMINI
  ELSE PROVIDERS.PLACEHOLDER

PlaceholderProviderNamePlain(error) == "placeholder"

\* provider: error ? 'placeholder-fallback' : 'placeholder'
PlaceholderProviderName(error) ==
  IF error # "null" THEN "placeholder-fallback" ELSE "placeholder"

\* the provider name a backend writes into its result
BackendProviderName(s, b) ==
  IF s.kind = "video"
    THEN (IF b = PROVIDERS.GEMINI THEN "gemini-veo"
          ELSE IF s.motionControl THEN "replicate-kling-motion"
          ELSE "replicate-kling")
    ELSE b

\* the request a backend builds from the call's parameters: the prompt, and
\* for video the first frame when a path is given and the file exists
BuildRequest(s, b, p, frameOnDisk) ==
  [to |-> b,
   prompt |-> p.prompt,
   image |-> IF s.kind = "video" /\ p.firstFramePath # "none" /\ frameOnDisk
               THEN p.firstFramePath ELSE "none"]

\* the object literal handed to _generateWithFallback
FallbackParams(p) ==
  [prompt |-> p.prompt,
   outputPath |-> p.outputPath,
   firstFramePath |-> p.firstFramePath,
   referenceImages |-> p.referenceImages]

FallbackResultUnmarked(r) == [r EXCEPT !.costEstimate = TRUE]

\* return { ...fallbackResult, costEstimate: fallbackCost, fallbackUsed: true }
FallbackResult(r) == [r EXCEPT !.fallbackUsed = "true", !.costEstimate = TRUE]

\* return { ...result, costEstimate }
PrimaryResult(r) == [r EXCEPT !.costEstimate = TRUE]

\* maxAttempts of the polling loop of a backend
MaxPollAttempts(s, b) ==
  IF b = PROVIDERS.GEMINI THEN VeoMaxAttempts
  ELSE IF s.kind = "video" THEN ReplicateVideoMaxAttempts
  ELSE ReplicateImageMaxAttempts

\* what a status response does to its polling loop:
\* "return" (the loop hands the status back), "throw", or "continue"
\* _veoWaitForCompletion
VeoPollStep(status) ==
  IF status \in {"done", "done_no_uri"} THEN "return"
  ELSE IF status = "done_error" THEN "throw"
  ELSE "continue"

\* VideoProvider._replicateWaitForCompletion
ReplicateVideoPollStep(status) ==
  IF status \in {"succeeded", "succeeded_no_output"} THEN "return"
  ELSE IF status \in {"failed", "canceled"} THEN "throw"
  ELSE "continue"

\* ImageProvider._replicateWaitForPrediction
ReplicateImagePollStep(status) ==
  IF status \in {"succeeded", "succeeded_no_output", "failed"} THEN "return"
  ELSE "continue"

PollStep(s, b, status) ==
  IF b = PROVIDERS.GEMINI THEN VeoPollStep(status)
  ELSE IF s.kind = "video" THEN ReplicateVideoPollStep(status)
  ELSE ReplicateImagePollStep(status)

\* the error a polling loop throws on a status
PollError(b, status) ==
  IF b = PROVIDERS.GEMINI THEN "VEO_FAILED"
  ELSE IF status = "canceled" THEN "REPLICATE_CANCELED"
  ELSE "REPLICATE_FAILED"

PollTimeoutError(b) ==
  IF b = PROVIDERS.GEMINI THEN "VEO_TIMED_OUT" ELSE "REPLICATE_TIMED_OUT"

\* what the caller of the polling loop does with a returned status:
\* an error to throw, or "none" to go on to the download
AfterPoll(s, b, status) ==
  IF b = PROVIDERS.GEMINI
    THEN (IF status = "done_no_uri" THEN "VEO_NO_URI" ELSE "none")
  ELSE IF s.kind = "video"
    THEN (IF status = "succeeded_no_output" THEN "KLING_NO_OUTPUT" ELSE "none")
  ELSE IF status = "failed" THEN "REPLICATE_FAILED"
  ELSE IF status = "succeeded_no_output" THEN "NO_OUTPUT_URL"
  ELSE "none"

\* the status responses of a backend: still running, terminal ones, and an
\* error envelope of the status endpoint (no status field at all)
PollStatuses(b) ==
  IF b = PROVIDERS.GEMINI
    THEN {"processing", "done", "done_no_uri", "done_error", "error_envelope"}
    ELSE {"processing", "succeeded", "succeeded_no_output", "failed", "canceled",
          "error_envelope"}

(***************************************************************************)
(* The project pipeline: shots, versions, continuity, rollback             *)
(***************************************************************************)
\* null / undefined path
Null == <<>>

\* the sections of a script; "missing" is an absent property
Sections == {"hook", "problem", "solution", "cta"}
SectionValues == {"text", "", "missing"}
ScriptResponses == [Sections -> SectionValues]
NoScript == [f \in Sections |-> "none"]

\* JavaScript truthiness of a section value: !script.hook
Truthy(v) == v \notin {"", "missing"}

ValidScriptNoCta(s) == \A f \in Sections \ {"cta"} : Truthy(s[f])

\* if (!script.hook || !script.problem || !script.solution || !script.cta) reject
ValidScript(s) == \A f \in Sections : Truthy(s[f])

\* the four literal sections of _generatePlaceholderScript
PlaceholderScript == [f \in Sections |-> "placeholder text"]

\* JavaScript a || b on paths
Or(a, b) == IF a # Null THEN a ELSE b

\* path.join(assetsPath, `${shot.id}_v${version}.png`)
KeyframePath(id, version) == <<"keyframes", id, version>>

\* path.join(clipsPath, `${shot.id}_v${version}.mp4`)
ClipPath(id, version) == <<"clips", id, version>>

\* path.join(framesPath, `${shot.id}_last_v${version}.png`)
FramePath(id, version) == <<"frames", id, version>>

EmptyContinuity ==
  [prev_last_frame_path |-> Null, first_frame_path |-> Null,
   target_last_frame_path |-> Null, last_frame_path |-> Null]

\* the sections a storyboard has a shot for, in order
shotLabels == <<"hook", "problem", "solution", "cta">>
NumShots == Len(shotLabels)

Max(a, b) == IF a >= b THEN a ELSE b

\* Math.round(n / d) for d > 0: the nearest integer, a half goes up
Round(n, d) == (2 * n + d) \div (2 * d)

\* project.target_duration || 30
TargetDuration(p) == IF p.target_duration = 0 THEN 30 ELSE p.target_duration

perShotTruncated(p) == Max(2, TargetDuration(p) \div Len(shotLabels))

\* Math.max(2, Math.round(duration / shotLabels.length))
perShot(p) == Max(2, Round(TargetDuration(p), Len(shotLabels)))

\* shot.text: the section of the script, or the default sentence of the
\* label when the section is empty or absent
ShotText(p, index) ==
  IF Truthy(p.script[shotLabels[index]])
    THEN <<shotLabels[index], p.script[shotLabels[index]]>>
    ELSE <<shotLabels[index], "default sentence">>

\* one element of the array generateStoryboardShots returns; the shot id is
\* `${label}-${index + 1}`, written here as the index; the two version logs
\* are absent on a fresh shot, written here as empty
StoryboardShot(p, index) ==
  [id |-> index,
   order |-> index,
   duration_sec |-> perShot(p),
   on_screen_text |-> ShotText(p, index),
   keyframe_image_path |-> Null,
   keyframe_version |-> 0,
   clip_path |-> Null,
   clip_version |-> 0,
   continuity |-> EmptyContinuity,
   status |-> [keyframe_status |-> "pending", clip_status |-> "pending"],
   keyframe_versions |-> <<>>,
   clip_versions |-> <<>>]

\* project.shots[i - 1] for i = 0
NoShot ==
  [id |-> 0, order |-> 0, duration_sec |-> 0, on_screen_text |-> Null,
   keyframe_image_path |-> Null, keyframe_version |-> 0,
   clip_path |-> Null, clip_version |-> 0,
   continuity |-> EmptyContinuity,
   status |-> [keyframe_status |-> "pending", clip_status |-> "pending"],
   keyframe_versions |-> <<>>, clip_versions |-> <<>>]

generateStoryboardShots(p) ==
  [index \in 1..Len(shotLabels) |-> StoryboardShot(p, index)]

\* the sections of a project that has no script yet
EmptySections == [f \in Sections |-> ""]

\* defaultProject(id, input) with no input
defaultProject(id) ==
  [id |-> id, continuity_mode |-> "maintain", target_duration |-> 30,
   script |-> EmptySections, shots |-> <<>>, exports |-> <<>>, last_updated |-> 0]

\* saveProject: stamps last_updated and writes project.json
saveProject(p, now) == [p EXCEPT !.last_updated = now]

\* new ContinuityManager({ supportsFirstLast, mode }): this.supportsFirstLast =
\* supportsFirstLast || false, this.mode = mode || 'bridging'; the flag is
\* given as "true", "false" or "undefined"
ContinuityManager(supportsFirstLast, mode) ==
  [supportsFirstLast |-> (supportsFirstLast = "true"),
   mode |-> IF mode \in {"undefined", ""} THEN "bridging" ELSE mode]

\* new ContinuityManager({ supportsFirstLast: true }) of generateClipsForShots
PipelineManager == ContinuityManager("true", "undefined")

resolveFramesFromCache(m, previousShot, currentShot) ==
  IF previousShot = NoShot
    THEN [firstFramePath |-> currentShot.keyframe_image_path, targetLastFramePath |-> Null]
    ELSE [firstFramePath |-> currentShot.keyframe_image_path,
          targetLastFramePath |-> Or(currentShot.continuity.prev_last_frame_path,
                                     previousShot.keyframe_image_path)]

resolveFramesKnownModesOnly(m, previousShot, currentShot) ==
  IF m.mode \notin {"bridging", "last-frame"} \/ previousShot = NoShot
    THEN [firstFramePath |-> currentShot.keyframe_image_path, targetLastFramePath |-> Null]
  ELSE IF m.mode = "bridging" /\ m.supportsFirstLast
    THEN [firstFramePath |-> currentShot.keyframe_image_path,
          targetLastFramePath |-> Or(previousShot.continuity.last_frame_path,
                                     previousShot.keyframe_image_path)]
  ELSE [firstFramePath |-> Or(previousShot.continuity.last_frame_path,
                              previousShot.keyframe_image_path),
        targetLastFramePath |-> Null]

resolveFramesKeyframeFirst(m, previousShot, currentShot) ==
  IF m.mode = "last-frame" /\ previousShot # NoShot
    THEN [firstFramePath |-> Or(previousShot.keyframe_image_path,
                                previousShot.continuity.last_frame_path),
          targetLastFramePath |-> Null]
    ELSE resolveFramesFromCache(m, previousShot, currentShot)

resolveFramesNoPredecessorCheck(m, previousShot, currentShot) ==
  IF m.mode = "independent"
    THEN [firstFramePath |-> currentShot.keyframe_image_path, targetLastFramePath |-> Null]
  ELSE IF m.mode = "last-frame" \/ ~m.supportsFirstLast
    THEN [firstFramePath |-> Or(previousShot.continuity.last_frame_path,
                                previousShot.keyframe_image_path),
          targetLastFramePath |-> Null]
  ELSE [firstFramePath |-> currentShot.keyframe_image_path,
        targetLastFramePath |-> Or(previousShot.continuity.last_frame_path,
                                   previousShot.keyframe_image_path)]

\* ContinuityManager.resolveFrames({ previousShot, currentShot })
resolveFrames(m, previousShot, currentShot) ==
  IF m.mode = "independent"
    THEN [firstFramePath |-> currentShot.keyframe_image_path, targetLastFramePath |-> Null]
  ELSE IF previousShot = NoShot
    THEN [firstFramePath |-> currentShot.keyframe_image_path, targetLastFramePath |-> Null]
  ELSE IF m.mode = "last-frame"
    THEN [firstFramePath |-> Or(previousShot.continuity.last_frame_path,
                                previousShot.keyframe_image_path),
          targetLastFramePath |-> Null]
  ELSE IF m.supportsFirstLast
    THEN [firstFramePath |-> currentShot.keyframe_image_path,
          targetLastFramePath |-> Or(previousShot.continuity.last_frame_path,
                                     previousShot.keyframe_image_path)]
  ELSE [firstFramePath |-> Or(previousShot.continuity.last_frame_path,
                              previousShot.keyframe_image_path),
        targetLastFramePath |-> Null]

\* the video models the pipeline can run on: the Veo model of the
\* constructor's default and of defaultConfig(), and the Kling model
VideoModels ==
  {"veo-3.0-fast-generate-001", "veo-3.1-fast-generate-preview", "kwaivgi/kling-v2.6"}

\* dual-endpoint conditioning: _generateWithVeo adds lastFrame to the
\* request only when the model name includes '3.1'; _generateWithKling
\* takes no last frame at all
supportsLastFrame(model) == model = "veo-3.1-fast-generate-preview"

\* the frames the backend conditions the clip on, given the frames
\* generateVideo was called with
Conditioning(model, frames) ==
  [image |-> frames.firstFramePath,
   lastFrame |-> IF supportsLastFrame(model) THEN frames.targetLastFramePath ELSE Null]

\* the frame paths a generateVideo result echoes: Veo and the placeholder
\* return both, Kling returns firstFramePath only
VideoResponse(frames, echoLast) ==
  [firstFramePath |-> frames.firstFramePath,
   lastFramePath |-> IF echoLast THEN frames.targetLastFramePath ELSE Null]

\* body of the loop of generateKeyframesForShots after generateImage returned
KeyframeUpdate(shot) ==
  [shot EXCEPT !.keyframe_version = shot.keyframe_version + 1,
               !.keyframe_image_path = KeyframePath(shot.id, shot.keyframe_version + 1),
               !.status.keyframe_status = "ready"]

\* extractLastFrame(clipPath, outputPath) on the files of the disk: with
\* ffmpeg (-y), and with the placeholder written when ffmpeg is missing or
\* fails, the file at outputPath is created or overwritten
extractLastFrame(disk, clipPath, outputPath) == disk \cup {outputPath}

ClipUpdateStaleFrame(prevShot, shot, frames, response) ==
  [shot EXCEPT !.clip_version = shot.clip_version + 1,
               !.clip_path = ClipPath(shot.id, shot.clip_version + 1),
               !.continuity.prev_last_frame_path =
                  IF prevShot = NoShot THEN Null ELSE prevShot.continuity.last_frame_path,
               !.continuity.first_frame_path =
                  Or(response.firstFramePath, frames.firstFramePath),
               !.continuity.target_last_frame_path =
                  Or(response.lastFramePath, frames.targetLastFramePath),
               !.continuity.last_frame_path =
                  IF shot.clip_version = 0 THEN Null
                  ELSE FramePath(shot.id, shot.clip_version),
               !.status.clip_status = "ready"]

ClipUpdateNoLastFrame(prevShot, shot, frames, response) ==
  [shot EXCEPT !.clip_version = shot.clip_version + 1,
               !.clip_path = ClipPath(shot.id, shot.clip_version + 1),
               !.continuity.prev_last_frame_path =
                  IF prevShot = NoShot THEN Null ELSE prevShot.continuity.last_frame_path,
               !.continuity.first_frame_path =
                  Or(response.firstFramePath, frames.firstFramePath),
               !.continuity.target_last_frame_path =
                  Or(response.lastFramePath, frames.targetLastFramePath),
               !.status.clip_status = "ready"]

\* body of the loop of generateClipsForShots after generateVideo returned:
\* the shot's fields, its continuity record, and the last frame saved by
\* continuity.saveLastFrame
ClipUpdate(prevShot, shot, frames, response) ==
  [shot EXCEPT !.clip_version = shot.clip_version + 1,
               !.clip_path = ClipPath(shot.id, shot.clip_version + 1),
               !.continuity.prev_last_frame_path =
                  IF prevShot = NoShot THEN Null ELSE prevShot.continuity.last_frame_path,
               !.continuity.first_frame_path =
                  Or(response.firstFramePath, frames.firstFramePath),
               !.continuity.target_last_frame_path =
                  Or(response.lastFramePath, frames.targetLastFramePath),
               !.continuity.last_frame_path = FramePath(shot.id, shot.clip_version + 1),
               !.status.clip_status = "ready"]

\* for (let i = 0; i < project.shots.length; i += 1), for (const shot of project.shots)
NextShot(i) == i + 1

\* the frames of a clip request before resolveFrames ran
NoFrames == [firstFramePath |-> Null, targetLastFramePath |-> Null]

\* project.shots[i - 1]
PreviousShot(shots, i) == IF i > 1 THEN shots[i - 1] ELSE NoShot

\* project.shots.findIndex((item) => item.id === shotId), 1-based; 0 for -1
FindShotIndex(shots, shotId) ==
  IF \E i \in DOMAIN shots : shots[i].id = shotId
    THEN CHOOSE i \in DOMAIN shots :
           shots[i].id = shotId /\ \A j \in DOMAIN shots : shots[j].id = shotId => i <= j
    ELSE 0

\* a history entry of a shot
HistoryEntry(version, path) == [version |-> version, path |-> path]
NoEntry == HistoryEntry(-1, Null)

\* ensureShotHistory(shot): both version logs exist afterwards; an absent
\* log becomes the empty log
ensureShotHistory(shot) == shot

\* generateKeyframeForShot({ project, shot }): the version counter goes up
\* by one, the active pointer moves to the new asset and a history entry is
\* appended
generateKeyframeForShot(shot) ==
  LET u == KeyframeUpdate(ensureShotHistory(shot)) IN
    [u EXCEPT !.keyframe_versions =
                 Append(@, HistoryEntry(u.keyframe_version, u.keyframe_image_path))]

\* generateClipForShot({ project, shot, previousShot }): the continuity
\* resolution of a full-sequence run, then as for a keyframe
generateClipForShot(shot, previousShot, echoLast) ==
  LET frames == resolveFrames(PipelineManager, previousShot, shot)
      u == ClipUpdate(previousShot, ensureShotHistory(shot), frames,
                      VideoResponse(frames, echoLast))
  IN [u EXCEPT !.clip_versions = Append(@, HistoryEntry(u.clip_version, u.clip_path))]

applyKeyframeVersionDropsLater(shot, entry) ==
  [shot EXCEPT !.keyframe_version = entry.version,
               !.keyframe_image_path = entry.path,
               !.keyframe_versions = SelectSeq(@, LAMBDA e : e.version <= entry.version)]

\* applyKeyframeVersion(shot, entry): the active keyframe pointer is
\* reassigned to the entry
applyKeyframeVersion(shot, entry) ==
  [shot EXCEPT !.keyframe_version = entry.version,
               !.keyframe_image_path = entry.path]

\* applyClipVersion(shot, entry): the active clip pointer is reassigned to
\* the entry, and with it the stored last frame to the one of that version
applyClipVersion(shot, entry) ==
  [shot EXCEPT !.clip_version = entry.version,
               !.clip_path = entry.path,
               !.continuity.last_frame_path = FramePath(shot.id, entry.version)]

\* the request bodies of the rollback route
AssetInputs == {"undefined", "keyframe", "clip", "audio"}
VersionInputs == {"undefined", "null", "1", "2", "3"}

\* Number.isNaN(Number(v))
IsNaNVersion(v) == v = "undefined"

\* Number(v) where it is a number
NumberOf(v) ==
  CASE v = "null" -> 0
    [] v = "1" -> 1
    [] v = "2" -> 2
    [] v = "3" -> 3
    [] OTHER -> -1

FindVersionOrFirst(versions, version) ==
  IF \E i \in DOMAIN versions : versions[i].version = version
    THEN versions[CHOOSE i \in DOMAIN versions :
                    /\ versions[i].version = version
                    /\ \A j \in DOMAIN versions : versions[j].version = version => i <= j]
  ELSE IF versions # <<>> THEN versions[1]
  ELSE NoEntry

FindVersionLatest(versions, version) ==
  IF versions = <<>> THEN NoEntry ELSE versions[Len(versions)]

\* versions.find((item) => item.version === version)
FindVersion(versions, version) ==
  IF \E i \in DOMAIN versions : versions[i].version = version
    THEN versions[CHOOSE i \in DOMAIN versions :
                    /\ versions[i].version = version
                    /\ \A j \in DOMAIN versions : versions[j].version = version => i <= j]
    ELSE NoEntry

\* what a route answers and what project.json holds afterwards
Reply(status, error, p) == [status |-> status, error |-> error, project |-> p]

\* POST /api/projects/:id/shots/:shotId/rollback on a project that exists
RollbackRoute(p, shotId, asset, version, now) ==
  LET i == FindShotIndex(p.shots, shotId) IN
  IF i = 0 THEN Reply(404, "Shot not found", p)
  ELSE
    LET shot == ensureShotHistory(p.shots[i]) IN
    IF asset = "undefined" \/ IsNaNVersion(version)
      THEN Reply(400, "asset and version are required", p)
    ELSE IF asset = "keyframe"
      THEN LET entry == FindVersion(shot.keyframe_versions, NumberOf(version)) IN
           IF entry = NoEntry
             THEN Reply(404, "Keyframe version not found", p)
             ELSE Reply(200, "none",
                        saveProject([p EXCEPT !.shots[i] = applyKeyframeVersion(shot, entry)],
                                    now))
    ELSE IF asset = "clip"
      THEN LET entry == FindVersion(shot.clip_versions, NumberOf(version)) IN
           IF entry = NoEntry
             THEN Reply(404, "Clip version not found", p)
             ELSE Reply(200, "none",
                        saveProject([p EXCEPT !.shots[i] = applyClipVersion(shot, entry)],
                                    now))
    ELSE Reply(400, "Invalid asset type", p)

\* path.join(exportDir, `final_v${n}.mp4`)
ExportPath(n) == <<"exports", n>>

clipPathsEveryOther(p) ==
  SelectSeq([i \in DOMAIN p.shots |-> IF i % 2 = 1 THEN p.shots[i].clip_path ELSE Null],
            LAMBDA c : c # Null)

\* project.shots.map((shot) => shot.clip_path).filter(Boolean)
clipPaths(p) ==
  SelectSeq([i \in DOMAIN p.shots |-> p.shots[i].clip_path], LAMBDA c : c # Null)

\* what the stitching tool does in an export: hasFfmpeg() is false, or
\* runFfmpeg answers not ok, or it answers ok
FfmpegOutcomes == {"missing", "failed", "ok"}

ExportWarningNone(tool) == "null"

\* warning of exportProjectVideo
ExportWarning(tool) ==
  CASE tool = "missing" -> "ffmpeg missing: wrote placeholder export"
    [] tool = "failed" -> "ffmpeg failed: wrote placeholder export"
    [] OTHER -> "null"

\* exportProjectVideo after the clip check: the list file and ffmpeg, or
\* the placeholder, then the entry pushed onto project.exports
stitchAndRecord(p, disk, tool, now) ==
  LET outputPath == ExportPath(Len(p.exports) + 1)
      listFile == <<"exports", "concat", now>>
  IN [threw |-> "none",
      project |-> [p EXCEPT !.exports =
                      Append(@, [path |-> outputPath, created_at |-> now,
                                 warning |-> ExportWarning(tool)])],
      outputPath |-> outputPath,
      warning |-> ExportWarning(tool),
      files |-> disk \cup {outputPath} \cup (IF tool = "missing" THEN {} ELSE {listFile}),
      concat |-> [clips |-> IF tool = "missing" THEN <<>> ELSE clipPaths(p),
                  output |-> IF tool = "ok" THEN "stitched" ELSE "placeholder"]]

exportProjectVideoNoClipCheck(p, disk, tool, now) == stitchAndRecord(p, disk, tool, now)

\* exportProjectVideo(project, options)
exportProjectVideo(p, disk, tool, now) ==
  IF Len(clipPaths(p)) = 0
    THEN [threw |-> "No clips available for export.",
          project |-> p, outputPath |-> Null, warning |-> "null", files |-> disk,
          concat |-> [clips |-> <<>>, output |-> "none"]]
    ELSE stitchAndRecord(p, disk, tool, now)

(***************************************************************************)
(* The cost tracker                                                        *)
(***************************************************************************)
\* the kinds of operation the providers record
OperationTypes == {"images", "videos", "llm"}

\* the cost the estimate functions return for the default models and the
\* default clip length of 4 seconds, in units of 1/100000 dollar; an
\* unknown provider / model pair costs 0
EstimateCost(type, provider) ==
  CASE type = "images" /\ provider \in {"gemini", "replicate"} -> 4000
    [] type = "videos" /\ provider = "gemini" -> 60000
    [] type = "videos" /\ provider = "replicate" -> 35000
    [] type = "llm" /\ provider = "gemini" -> 25
    [] OTHER -> 0

\* the operation object addOperation builds (timestamp, model and the
\* metadata are left out)
Operation(type, provider, cost) == [type |-> type, provider |-> provider, cost |-> cost]
NoOperation == Operation("none", "none", 0)

\* CostTracker.reset(): this.session = { operations: [], totals: {...} }
reset ==
  [operations |-> <<>>,
   totals |-> [images |-> 0, videos |-> 0, llm |-> 0, total |-> 0]]

addOperationNoKindTotal(s, type, provider, cost) ==
  [operations |-> Append(s.operations, Operation(type, provider, cost)),
   totals |-> [s.totals EXCEPT !.total = @ + cost]]

\* CostTracker.addOperation(type, provider, model, cost)
addOperation(s, type, provider, cost) ==
  [operations |-> Append(s.operations, Operation(type, provider, cost)),
   totals |-> [s.totals EXCEPT ![type] = @ + cost, !.total = @ + cost]]

\* the generate calls that are in flight at the same time
Callers == {1, 2}

(***************************************************************************)
(* State                                                                   *)
(***************************************************************************)
VARIABLES
  \* SpecDelay: the arguments of calculateDelay and its result
  dAttempt, dInitialDelay, dMaxDelay, dMultiplier, dRandom, dResult, dpc,
  \* SpecRetry: one call of retry(fn, options)
  rOptions,    \* the options argument
  rAttempt,    \* the loop variable
  rLog,        \* attempt numbers fn was invoked with, in order
  rLastError,  \* lastError ("none" while undefined)
  rSleeps,     \* number of sleep() calls
  rDelay,      \* delay of the last sleep, in units of 1/Scale ms
  rOutcomes,   \* how each invocation of fn ended: "ok" or the error, in order
  rThrown,     \* what retry() threw ("none" while it has not thrown)
  rpc,         \* "loop" | "running" | "sleeping" | "returned" | "thrown"
  \* Spec: one generateImage / generateVideo / generateScript call
  self,          \* the provider object: kind, provider, useReal, keys, model
  params,        \* the argument of the call
  frameOnDisk,   \* fs.existsSync(firstFramePath)
  file,          \* what the output path holds
  unlinkPending, \* fs.unlink(outputPath) was issued and has not run yet
  streamLinked,  \* the open write stream still is the file at the output path
  streamBody,    \* what the response piped into the write stream carries
  dlUrl,         \* the URL the download is fetching (redirects alternate it)
  pc,            \* where the call is
  stage,         \* "none" | "primary" | "fallback"
  backend,       \* the backend being attempted
  attempt,       \* attempt number inside retry()
  polls,         \* loop variable of the polling loop
  lastStatus,    \* the last status response of the polling loop
  err,           \* the error being thrown / lastError of retry()
  primaryError,  \* primaryError of the catch block ("none" before)
  fallbackError, \* fallbackError of the inner catch block ("none" before)
  calls,         \* how often each backend's generator was invoked
  request,       \* the request the last attempt built
  fbParams,      \* the parameters handed to _generateWithFallback
  result,        \* the value the call resolves to
  ledger,        \* tracker.session.operations
  response,      \* the script parsed from the text backend's last response
  script,        \* the four sections of the value generateScript resolves to
  \* SpecPipeline: the server's routes on the stored project
  project,       \* project.json of the project "p1"
  work,          \* the project object a batch request loaded and is updating
  ppc,           \* "idle" | "keyframes" | "clips" | "clipGen"
  idx,           \* loop index of the batch request (1-based)
  resolved,      \* the frames the last resolveFrames call returned
  reply,         \* the answer to the last request (status 0: none sent)
  ops,           \* requests accepted so far; the clock of saveProject
  files,         \* the asset files on disk
  wrote,         \* the asset files the last step wrote
  changed,       \* the last request that was answered changed the stored shots
  \* SpecResolve: one ContinuityManager and one resolveFrames call
  cmArgs,        \* the argument of the constructor
  cmManager,     \* the ContinuityManager object
  cmPrevious,    \* previousShot (NoShot: undefined)
  cmCurrent,     \* currentShot
  cmFrames,      \* what resolveFrames returned
  cmpc,          \* "new" | "ready" | "resolved"
  \* SpecExport: the export route
  concat,        \* the clip list the last export handed to ffmpeg
  \* SpecTracker: the process-wide cost tracker and the calls that use it
  session,       \* tracker.session: operations and totals
  callers        \* per generate call: the operation it will record, or NoOperation

delayVars == <<dAttempt, dInitialDelay, dMaxDelay, dMultiplier, dRandom, dResult, dpc>>
retryVars == <<rOptions, rAttempt, rLog, rLastError, rSleeps, rDelay, rOutcomes, rThrown, rpc>>
genVars ==
  <<self, params, frameOnDisk, file, unlinkPending, streamLinked, streamBody, dlUrl,
    pc, stage, backend, attempt, polls, lastStatus, err, primaryError, fallbackError,
    calls, request, fbParams, result, ledger, response, script>>
pipeVars == <<project, work, ppc, idx, resolved, reply, ops, files, wrote, changed>>
contVars == <<cmArgs, cmManager, cmPrevious, cmCurrent, cmFrames, cmpc>>
exportVars == <<concat>>
trackerVars == <<session, callers>>
vars == <<delayVars, retryVars, genVars, pipeVars, contVars, exportVars, trackerVars>>

DelayIdle ==
  /\ dAttempt = 1 /\ dInitialDelay = 0 /\ dMaxDelay = 0 /\ dMultiplier = 1
  /\ dRandom = 0 /\ dResult = 0 /\ dpc = "idle"

RetryIdle ==
  /\ rOptions = [maxRetries |-> 0] /\ rAttempt = 1 /\ rLog = <<>>
  /\ rLastError = "none" /\ rSleeps = 0 /\ rDelay = 0 /\ rOutcomes = <<>>
  /\ rThrown = "none"
  /\ rpc = "idle"

NoRequest == [to |-> "none", prompt |-> "none", image |-> "none"]
NoParams == [prompt |-> "none", outputPath |-> "none", firstFramePath |-> "none",
             referenceImages |-> <<>>]
NoResult == [provider |-> "none", fallbackUsed |-> "undefined", error |-> "undefined",
             costEstimate |-> FALSE, outputPath |-> "none"]

NoReply == [route |-> "none", status |-> 0, error |-> "none"]

PipeIdle ==
  /\ project = defaultProject("p1") /\ work = defaultProject("p1")
  /\ ppc = "off" /\ idx = 0 /\ resolved = NoFrames /\ reply = NoReply
  /\ ops = 0 /\ files = {} /\ wrote = {} /\ changed = FALSE

ContIdle ==
  /\ cmArgs = [supportsFirstLast |-> "undefined", mode |-> "undefined"]
  /\ cmManager = PipelineManager
  /\ cmPrevious = NoShot /\ cmCurrent = NoShot /\ cmFrames = NoFrames
  /\ cmpc = "idle"

NoConcat == [clips |-> <<>>, output |-> "none"]

ExportIdle == concat = NoConcat

TrackerIdle == session = reset /\ callers = [c \in Callers |-> NoOperation]

GenIdle ==
  /\ self = [kind |-> "image", provider |-> "gemini", useReal |-> FALSE,
             geminiApiKey |-> FALSE, replicateApiKey |-> FALSE, motionControl |-> FALSE]
  /\ params = NoParams
  /\ frameOnDisk = FALSE /\ file = "absent" /\ unlinkPending = FALSE
  /\ streamLinked = FALSE /\ streamBody = "none" /\ dlUrl = 0
  /\ pc = "idle" /\ stage = "none" /\ backend = "none" /\ attempt = 0 /\ polls = 0
  /\ lastStatus = "none" /\ err = "none" /\ primaryError = "none"
  /\ fallbackError = "none" /\ calls = [gemini |-> 0, replicate |-> 0]
  /\ request = NoRequest /\ fbParams = NoParams /\ result = NoResult
  /\ ledger = <<>>
  /\ response = NoScript /\ script = NoScript

(***************************************************************************)
(* SpecDelay: calculateDelay on bounded inputs                             *)
(***************************************************************************)
DelayInitialValues == {0, 1000, 2000}
DelayMaxValues == {1500, 30000}
DelayMultipliers == {1, 2, 3}

InitDelay ==
  /\ dAttempt \in 1..MaxDelayAttempt
  /\ dInitialDelay \in DelayInitialValues
  /\ dMaxDelay \in DelayMaxValues
  /\ dMultiplier \in DelayMultipliers
  /\ dRandom \in 0..(JitterDen - 1)
  /\ dResult = 0
  /\ dpc = "args"
  /\ RetryIdle
  /\ GenIdle
  /\ PipeIdle
  /\ ContIdle
  /\ ExportIdle
  /\ TrackerIdle

ComputeDelay ==
  /\ dpc = "args"
  /\ dResult' = calculateDelay(dAttempt, dInitialDelay, dMaxDelay, dMultiplier, dRandom)
  /\ dpc' = "done"
  /\ UNCHANGED <<dAttempt, dInitialDelay, dMaxDelay, dMultiplier, dRandom>>
  /\ UNCHANGED <<retryVars, genVars, pipeVars, contVars, exportVars, trackerVars>>

NextDelay == ComputeDelay

SpecDelay == InitDelay /\ [][NextDelay]_vars

(***************************************************************************)
(* SpecRetry: retry(fn, options)                                           *)
(***************************************************************************)
\* the options callers pass: a provider policy or a policy of their own
RetryOptionSets ==
  {getRetryConfig("gemini"), getRetryConfig("replicate"), getRetryConfig("other")}
  \cup {[maxRetries |-> n] : n \in 0..MaxCustomRetries}
  \cup {[maxRetries |-> 2, initialDelayMs |-> 1000, maxDelayMs |-> 1500]}

\* the ways fn can fail in SpecRetry
RetryErrorKinds ==
  TransientErrors \cup {"AUTH", "VEO_TIMED_OUT"}

Opts == MergeOptions(rOptions)

InitRetry ==
  /\ rOptions \in RetryOptionSets
  /\ rAttempt = 1
  /\ rLog = <<>>
  /\ rLastError = "none"
  /\ rSleeps = 0
  /\ rDelay = 0
  /\ rOutcomes = <<>>
  /\ rThrown = "none"
  /\ rpc = "loop"
  /\ DelayIdle
  /\ GenIdle
  /\ PipeIdle
  /\ ContIdle
  /\ ExportIdle
  /\ TrackerIdle

\* the loop test; then either "return await fn(attempt)" is started or the
\* loop is left and lastError is thrown
RetryLoopTest ==
  /\ rpc = "loop"
  /\ IF LoopGuard(rAttempt, Opts)
       THEN /\ rLog' = Append(rLog, rAttempt)
            /\ rpc' = "running"
            /\ UNCHANGED rThrown
       ELSE /\ rpc' = "thrown"
            /\ rThrown' = rLastError
            /\ UNCHANGED rLog
  /\ UNCHANGED <<rOptions, rAttempt, rLastError, rSleeps, rDelay, rOutcomes>>
  /\ UNCHANGED <<delayVars, genVars, pipeVars, contVars, exportVars, trackerVars>>

\* fn resolves: retry returns its value
RetryOpSucceeds ==
  /\ rpc = "running"
  /\ rOutcomes' = Append(rOutcomes, "ok")
  /\ rpc' = "returned"
  /\ UNCHANGED <<rOptions, rAttempt, rLog, rLastError, rSleeps, rDelay, rThrown>>
  /\ UNCHANGED <<delayVars, genVars, pipeVars, contVars, exportVars, trackerVars>>

\* fn rejects: the catch block, up to break or to "await sleep(delay)"
RetryOpFails ==
  /\ rpc = "running"
  /\ \E kind \in RetryErrorKinds, rnd \in 0..(JitterDen - 1) :
       /\ rOutcomes' = Append(rOutcomes, kind)
       /\ rLastError' = kind
       /\ IF CatchDecision(rAttempt, ErrorOf(kind), Opts) = "break"
            THEN /\ rpc' = "thrown"
                 /\ rThrown' = kind
                 /\ UNCHANGED <<rSleeps, rDelay>>
            ELSE /\ rDelay' = calculateDelay(rAttempt, Opts.initialDelayMs,
                                             Opts.maxDelayMs, Opts.backoffMultiplier, rnd)
                 /\ rSleeps' = rSleeps + 1
                 /\ rpc' = "sleeping"
                 /\ UNCHANGED rThrown
  /\ UNCHANGED <<rOptions, rAttempt, rLog>>
  /\ UNCHANGED <<delayVars, genVars, pipeVars, contVars, exportVars, trackerVars>>

\* the sleep ends: attempt++
RetryWake ==
  /\ rpc = "sleeping"
  /\ rAttempt' = rAttempt + 1
  /\ rpc' = "loop"
  /\ UNCHANGED <<rOptions, rLog, rLastError, rSleeps, rDelay, rOutcomes, rThrown>>
  /\ UNCHANGED <<delayVars, genVars, pipeVars, contVars, exportVars, trackerVars>>

NextRetry ==
  \/ RetryLoopTest
  \/ RetryOpSucceeds
  \/ RetryOpFails
  \/ RetryWake

SpecRetry == InitRetry /\ [][NextRetry]_vars


(***************************************************************************)
(* Spec: one generate call of a provider                                   *)
(***************************************************************************)
Selves ==
  {[kind |-> k, provider |-> pr, useReal |-> u, geminiApiKey |-> g,
    replicateApiKey |-> r, motionControl |-> m] :
     k \in {"image", "video", "llm"}, pr \in {"gemini", "replicate"},
     u \in BOOLEAN, g \in BOOLEAN, r \in BOOLEAN, m \in BOOLEAN}

\* the text provider has one backend and no video model
WellFormedSelf(s) ==
  /\ s.kind # "video" => ~s.motionControl
  /\ s.kind = "llm" => (s.provider = "gemini" /\ ~s.replicateApiKey)

ParamSets(s) ==
  {[prompt |-> "prompt",
    outputPath |-> o,
    firstFramePath |-> f,
    referenceImages |-> <<"ref.png">>] :
     o \in (IF s.kind = "llm" THEN {"none"} ELSE {"none", "out"}),
     f \in (IF s.kind = "video" THEN {"none", "frame.png"} ELSE {"none"})}

Init ==
  /\ self \in {s \in Selves : WellFormedSelf(s)}
  /\ params \in ParamSets(self)
  /\ frameOnDisk \in (IF params.firstFramePath = "none" THEN {FALSE} ELSE BOOLEAN)
  /\ file = "absent"
  /\ unlinkPending = FALSE
  /\ streamLinked = FALSE
  /\ streamBody = "none"
  /\ dlUrl = 0
  /\ pc = "start"
  /\ stage = "none"
  /\ backend = "none"
  /\ attempt = 0
  /\ polls = 0
  /\ lastStatus = "none"
  /\ err = "none"
  /\ primaryError = "none"
  /\ fallbackError = "none"
  /\ calls = [gemini |-> 0, replicate |-> 0]
  /\ request = NoRequest
  /\ fbParams = NoParams
  /\ result = NoResult
  /\ ledger = <<>>
  /\ response = NoScript
  /\ script = NoScript
  /\ DelayIdle
  /\ RetryIdle
  /\ PipeIdle
  /\ ContIdle
  /\ ExportIdle
  /\ TrackerIdle

GenOpts == MergeOptions(RetryConfigOf(self))

\* backends that answer the first request with the asset itself
Synchronous(s, b) == s.kind = "llm" \/ (s.kind = "image" /\ b = PROVIDERS.GEMINI)

EntryStepNoPathCheck(s, p) ==
  IF _getActiveProvider(s) = PROVIDERS.PLACEHOLDER THEN "placeholder" ELSE "retry"

\* the first statements of generateImage / generateVideo: the outputPath
\* check, then the choice between the placeholder and the retried backend
\* (generateScript takes no output path)
EntryStep(s, p) ==
  IF s.kind # "llm" /\ p.outputPath = "none" THEN "throw"
  ELSE IF _getActiveProvider(s) = PROVIDERS.PLACEHOLDER THEN "placeholder"
  ELSE "retry"

\* entry of generateImage / generateVideo / generateScript up to the first await
Generate ==
  /\ pc = "start"
  /\ IF EntryStep(self, params) = "throw"
       THEN /\ err' = "OUTPUT_PATH_REQUIRED"
            /\ pc' = "threw"
            /\ UNCHANGED <<stage, backend, attempt>>
       ELSE IF EntryStep(self, params) = "placeholder"
         THEN /\ pc' = "degrade"
              /\ UNCHANGED <<stage, backend, attempt, err>>
         ELSE /\ stage' = "primary"
              /\ backend' = _getActiveProvider(self)
              /\ attempt' = 1
              /\ pc' = "attempt"
              /\ UNCHANGED err
  /\ UNCHANGED <<self, params, frameOnDisk, file, unlinkPending, streamLinked,
                 streamBody, dlUrl, polls, lastStatus, primaryError, fallbackError,
                 calls, request, fbParams, result, ledger, response, script>>
  /\ UNCHANGED <<delayVars, retryVars, pipeVars, contVars, exportVars, trackerVars>>

\* a backend generator is entered: _generateWithVeo, _generateWithReplicate
\* (Kling or Kling motion control), _generateWithGemini; it builds its
\* request and sends it, or throws before building one
StartAttempt ==
  /\ pc = "attempt"
  /\ calls' = [calls EXCEPT ![backend] = @ + 1]
  /\ polls' = 0
  /\ lastStatus' = "none"
  /\ IF self.kind = "video" /\ backend = PROVIDERS.REPLICATE /\ self.motionControl
       THEN /\ err' = IF params.firstFramePath = "none" \/ ~frameOnDisk
                        THEN "MOTION_NO_IMAGE" ELSE "MOTION_NO_VIDEO"
            /\ pc' = "catch"
            /\ UNCHANGED request
       ELSE /\ request' = BuildRequest(self, backend,
                                       IF stage = "fallback" THEN fbParams ELSE params,
                                       frameOnDisk)
            /\ pc' = "request"
            /\ UNCHANGED err
  /\ UNCHANGED <<self, params, frameOnDisk, file, unlinkPending, streamLinked,
                 streamBody, dlUrl, stage, backend, attempt, primaryError,
                 fallbackError, fbParams, result, ledger, response, script>>
  /\ UNCHANGED <<delayVars, retryVars, pipeVars, contVars, exportVars, trackerVars>>

\* the ways the first request of a backend fails
RequestErrors == {"HTTP_503", "HTTP_502", "ECONNRESET", "AUTH"}

\* the error of a well-formed response that lacks the asset
EmptyResponseError(s) == IF s.kind = "llm" THEN "NO_TEXT" ELSE "NO_IMAGE_DATA"

\* the response to the first request arrives
RequestResponds ==
  /\ pc = "request"
  /\ \E outcome \in {"ok", "empty"} \cup RequestErrors :
       IF outcome = "ok"
         THEN IF self.kind = "llm"
                THEN \E r \in ScriptResponses :
                       /\ response' = r
                       /\ IF ValidScript(r)
                            THEN /\ pc' = "attemptDone"
                                 /\ UNCHANGED <<file, err>>
                            ELSE /\ err' = "SCRIPT_MISSING"
                                 /\ pc' = "catch"
                                 /\ UNCHANGED file
              ELSE IF Synchronous(self, backend)
                THEN /\ pc' = "attemptDone"
                     /\ file' = "asset"
                     /\ UNCHANGED <<err, response>>
                ELSE /\ pc' = "poll"
                     /\ UNCHANGED <<file, err, response>>
       ELSE IF outcome = "empty"
         THEN /\ Synchronous(self, backend)
              /\ err' = EmptyResponseError(self)
              /\ pc' = "catch"
              /\ UNCHANGED <<file, response>>
       ELSE /\ err' = outcome
            /\ pc' = "catch"
            /\ UNCHANGED <<file, response>>
  /\ UNCHANGED <<self, params, frameOnDisk, unlinkPending, streamLinked, streamBody,
                 dlUrl, stage, backend, attempt, polls, lastStatus, primaryError,
                 fallbackError, calls, request, fbParams, result, ledger, script>>
  /\ UNCHANGED <<delayVars, retryVars, pipeVars, contVars, exportVars, trackerVars>>

\* one pass of a polling loop: the loop test, the status request and what
\* the loop and its caller do with the answer; a returned status with an
\* output starts the download (createWriteStream on the output path)
PollCheck ==
  /\ pc = "poll"
  /\ IF polls >= MaxPollAttempts(self, backend)
       THEN /\ err' = PollTimeoutError(backend)
            /\ pc' = "catch"
            /\ UNCHANGED <<lastStatus, file, streamLinked, dlUrl>>
       ELSE \E status \in PollStatuses(backend) :
              /\ lastStatus' = status
              /\ IF PollStep(self, backend, status) = "continue"
                   THEN /\ pc' = "pollSleep"
                        /\ UNCHANGED <<err, file, streamLinked, dlUrl>>
                 ELSE IF PollStep(self, backend, status) = "throw"
                   THEN /\ err' = PollError(backend, status)
                        /\ pc' = "catch"
                        /\ UNCHANGED <<file, streamLinked, dlUrl>>
                 ELSE IF AfterPoll(self, backend, status) # "none"
                   THEN /\ err' = AfterPoll(self, backend, status)
                        /\ pc' = "catch"
                        /\ UNCHANGED <<file, streamLinked, dlUrl>>
                 ELSE /\ file' = "empty"
                      /\ streamLinked' = TRUE
                      /\ dlUrl' = 0
                      /\ pc' = "download"
                      /\ UNCHANGED err
  /\ UNCHANGED <<self, params, frameOnDisk, unlinkPending, streamBody, stage, backend,
                 attempt, polls, primaryError, fallbackError, calls, request,
                 fbParams, result, ledger, response, script>>
  /\ UNCHANGED <<delayVars, retryVars, pipeVars, contVars, exportVars, trackerVars>>

\* the status request fails in transit or its body does not parse
PollRequestFails ==
  /\ pc = "poll"
  /\ polls < MaxPollAttempts(self, backend)
  /\ \E kind \in {"ECONNRESET", "PARSE"} : err' = kind
  /\ pc' = "catch"
  /\ UNCHANGED <<self, params, frameOnDisk, file, unlinkPending, streamLinked,
                 streamBody, dlUrl, stage, backend, attempt, polls, lastStatus,
                 primaryError, fallbackError, calls, request, fbParams, result, ledger, response, script>>
  /\ UNCHANGED <<delayVars, retryVars, pipeVars, contVars, exportVars, trackerVars>>

\* the fixed sleep between two status checks ends
PollWake ==
  /\ pc = "pollSleep"
  /\ polls' = polls + 1
  /\ pc' = "poll"
  /\ UNCHANGED <<self, params, frameOnDisk, file, unlinkPending, streamLinked,
                 streamBody, dlUrl, stage, backend, attempt, lastStatus, err,
                 primaryError, fallbackError, calls, request, fbParams, result, ledger, response, script>>
  /\ UNCHANGED <<delayVars, retryVars, pipeVars, contVars, exportVars, trackerVars>>

\* what the download does with a response status other than a redirect:
\* "pipe" the body into the file or "reject"
\* VideoProvider._downloadVideo
VideoDownloadStep(status) == IF status = "200" THEN "pipe" ELSE "reject"

\* ImageProvider._downloadImage
ImageDownloadStep(status) == "pipe"

DownloadStep(s, status) ==
  IF s.kind = "video" THEN VideoDownloadStep(status) ELSE ImageDownloadStep(status)

\* the download request is answered: a redirect, a status, or a request error
DownloadResponds ==
  /\ pc = "download"
  /\ \E resp \in {"redirect", "200", "404", "503", "error"} :
       IF resp = "redirect"
         THEN /\ dlUrl' = 1 - dlUrl
              /\ UNCHANGED <<pc, err, file, unlinkPending, streamBody>>
       ELSE IF resp = "error"
         THEN /\ unlinkPending' = TRUE
              /\ err' = "ECONNRESET"
              /\ pc' = "catch"
              /\ UNCHANGED <<dlUrl, file, streamBody>>
       ELSE IF DownloadStep(self, resp) = "pipe"
         THEN /\ streamBody' = IF resp = "200" THEN "asset" ELSE "errorBody"
              /\ file' = IF streamLinked THEN "partial" ELSE file
              /\ pc' = "streaming"
              /\ UNCHANGED <<dlUrl, err, unlinkPending>>
       ELSE /\ err' = IF resp = "404" THEN "DOWNLOAD_404" ELSE "DOWNLOAD_503"
            /\ pc' = "catch"
            /\ UNCHANGED <<dlUrl, file, unlinkPending, streamBody>>
  /\ UNCHANGED <<self, params, frameOnDisk, streamLinked, stage, backend, attempt,
                 polls, lastStatus, primaryError, fallbackError, calls, request,
                 fbParams, result, ledger, response, script>>
  /\ UNCHANGED <<delayVars, retryVars, pipeVars, contVars, exportVars, trackerVars>>

\* the response body ends: the write stream finishes and the download resolves
StreamFinishes ==
  /\ pc = "streaming"
  /\ file' = IF streamLinked THEN streamBody ELSE file
  /\ pc' = "attemptDone"
  /\ UNCHANGED <<self, params, frameOnDisk, unlinkPending, streamLinked, streamBody,
                 dlUrl, stage, backend, attempt, polls, lastStatus, err, primaryError,
                 fallbackError, calls, request, fbParams, result, ledger, response, script>>
  /\ UNCHANGED <<delayVars, retryVars, pipeVars, contVars, exportVars, trackerVars>>

\* the connection is cut while the body is piped: the response has no
\* 'aborted' / 'error' listener and pipe() does not end the write stream, so
\* 'finish' never comes and the download promise never settles (a runtime
\* that raises the unhandled stream error ends the process instead; the
\* call does not return in either case)
StreamAborted ==
  /\ pc = "streaming"
  /\ pc' = "hung"
  /\ UNCHANGED <<self, params, frameOnDisk, file, unlinkPending, streamLinked,
                 streamBody, dlUrl, stage, backend, attempt, polls, lastStatus, err,
                 primaryError, fallbackError, calls, request, fbParams, result, ledger, response, script>>
  /\ UNCHANGED <<delayVars, retryVars, pipeVars, contVars, exportVars, trackerVars>>

\* a backend never answers a request: no request has a timeout
NeverAnswered ==
  /\ \/ pc \in {"request", "download"}
     \/ (pc = "poll" /\ polls < MaxPollAttempts(self, backend))
  /\ pc' = "hung"
  /\ UNCHANGED <<self, params, frameOnDisk, file, unlinkPending, streamLinked,
                 streamBody, dlUrl, stage, backend, attempt, polls, lastStatus, err,
                 primaryError, fallbackError, calls, request, fbParams, result, ledger, response, script>>
  /\ UNCHANGED <<delayVars, retryVars, pipeVars, contVars, exportVars, trackerVars>>

\* the result object a backend generator returns
BackendResult(s, b, p) ==
  [provider |-> BackendProviderName(s, b),
   fallbackUsed |-> "undefined",
   error |-> "undefined",
   costEstimate |-> FALSE,
   outputPath |-> p.outputPath]

LedgerType(s) ==
  IF s.kind = "image" THEN "images" ELSE IF s.kind = "video" THEN "videos" ELSE "llm"

\* the generator of the attempted backend returned: retry() returns it, the
\* cost is recorded and the call returns (with fallbackUsed on the fallback)
AttemptSucceeds ==
  /\ pc = "attemptDone"
  /\ ledger' = Append(ledger, [type |-> LedgerType(self), provider |-> backend])
  /\ result' = IF stage = "fallback"
                 THEN FallbackResult(BackendResult(self, backend, fbParams))
                 ELSE PrimaryResult(BackendResult(self, backend, params))
  /\ script' = IF self.kind = "llm" THEN response ELSE script
  /\ pc' = "resolving"
  /\ UNCHANGED <<self, params, frameOnDisk, file, unlinkPending, streamLinked,
                 streamBody, dlUrl, stage, backend, attempt, polls, lastStatus, err,
                 primaryError, fallbackError, calls, request, fbParams, response>>
  /\ UNCHANGED <<delayVars, retryVars, pipeVars, contVars, exportVars, trackerVars>>

\* the catch block of retry() around the primary backend
RetryCatch ==
  /\ pc = "catch"
  /\ stage = "primary"
  /\ pc' = IF CatchDecision(attempt, ErrorOf(err), GenOpts) = "break"
             THEN "primaryFailed" ELSE "retrySleep"
  /\ UNCHANGED <<self, params, frameOnDisk, file, unlinkPending, streamLinked,
                 streamBody, dlUrl, stage, backend, attempt, polls, lastStatus, err,
                 primaryError, fallbackError, calls, request, fbParams, result, ledger, response, script>>
  /\ UNCHANGED <<delayVars, retryVars, pipeVars, contVars, exportVars, trackerVars>>

\* sleep(delay) ends: attempt++ and the loop test of retry()
PrimaryRetryWake ==
  /\ pc = "retrySleep"
  /\ attempt' = attempt + 1
  /\ pc' = IF LoopGuard(attempt + 1, GenOpts) THEN "attempt" ELSE "primaryFailed"
  /\ UNCHANGED <<self, params, frameOnDisk, file, unlinkPending, streamLinked,
                 streamBody, dlUrl, stage, backend, polls, lastStatus, err,
                 primaryError, fallbackError, calls, request, fbParams, result, ledger, response, script>>
  /\ UNCHANGED <<delayVars, retryVars, pipeVars, contVars, exportVars, trackerVars>>

\* catch (primaryError): pick the fallback backend and call
\* _generateWithFallback, or go to the placeholder
PrimaryFailed ==
  /\ pc = "primaryFailed"
  /\ primaryError' = err
  /\ IF _getFallbackProvider(self, backend) # PROVIDERS.PLACEHOLDER
       THEN /\ stage' = "fallback"
            /\ backend' = _getFallbackProvider(self, backend)
            /\ fbParams' = FallbackParams(params)
            /\ pc' = "attempt"
       ELSE /\ pc' = "degrade"
            /\ UNCHANGED <<stage, backend, fbParams>>
  /\ UNCHANGED <<self, params, frameOnDisk, file, unlinkPending, streamLinked,
                 streamBody, dlUrl, attempt, polls, lastStatus, err, fallbackError,
                 calls, request, result, ledger, response, script>>
  /\ UNCHANGED <<delayVars, retryVars, pipeVars, contVars, exportVars, trackerVars>>

\* catch (fallbackError): log it and fall through to the placeholder
FallbackFailed ==
  /\ pc = "catch"
  /\ stage = "fallback"
  /\ fallbackError' = err
  /\ pc' = "degrade"
  /\ UNCHANGED <<self, params, frameOnDisk, file, unlinkPending, streamLinked,
                 streamBody, dlUrl, stage, backend, attempt, polls, lastStatus, err,
                 primaryError, calls, request, fbParams, result, ledger, response, script>>
  /\ UNCHANGED <<delayVars, retryVars, pipeVars, contVars, exportVars, trackerVars>>

\* the result object of _generatePlaceholder / _generatePlaceholderScript
PlaceholderResult(p, error) ==
  [provider |-> PlaceholderProviderName(error),
   fallbackUsed |-> "undefined",
   error |-> error,
   costEstimate |-> FALSE,
   outputPath |-> p.outputPath]

\* _generatePlaceholder: a looped clip from the first frame when ffmpeg is
\* there and succeeds, the literal placeholder otherwise; the text provider
\* writes no file
GeneratePlaceholder ==
  /\ pc = "degrade"
  /\ \E ffmpeg \in {"absent", "ok", "fails"} :
       file' = IF self.kind = "llm" THEN file
               ELSE IF self.kind = "video" /\ ffmpeg = "ok"
                       /\ params.firstFramePath # "none" /\ frameOnDisk
                 THEN "loopedClip"
               ELSE "placeholder"
  /\ result' = PlaceholderResult(params,
                                 IF primaryError = "none" THEN "null" ELSE primaryError)
  /\ script' = IF self.kind = "llm" THEN PlaceholderScript ELSE script
  /\ pc' = "resolving"
  /\ UNCHANGED <<self, params, frameOnDisk, unlinkPending, streamLinked, streamBody,
                 dlUrl, stage, backend, attempt, polls, lastStatus, err, primaryError,
                 fallbackError, calls, request, fbParams, ledger, response>>
  /\ UNCHANGED <<delayVars, retryVars, pipeVars, contVars, exportVars, trackerVars>>

\* the promise of the call resolves and the caller goes on with the result
Return ==
  /\ pc = "resolving"
  /\ pc' = "returned"
  /\ UNCHANGED <<self, params, frameOnDisk, file, unlinkPending, streamLinked,
                 streamBody, dlUrl, stage, backend, attempt, polls, lastStatus, err,
                 primaryError, fallbackError, calls, request, fbParams, result, ledger, response, script>>
  /\ UNCHANGED <<delayVars, retryVars, pipeVars, contVars, exportVars, trackerVars>>

\* the thread pool runs the unlink issued by a failed download
UnlinkRuns ==
  /\ unlinkPending
  /\ unlinkPending' = FALSE
  /\ file' = "absent"
  /\ streamLinked' = FALSE
  /\ UNCHANGED <<self, params, frameOnDisk, streamBody, dlUrl, pc, stage, backend,
                 attempt, polls, lastStatus, err, primaryError, fallbackError, calls,
                 request, fbParams, result, ledger, response, script>>
  /\ UNCHANGED <<delayVars, retryVars, pipeVars, contVars, exportVars, trackerVars>>

Next ==
  \/ Generate
  \/ StartAttempt
  \/ RequestResponds
  \/ PollCheck
  \/ PollRequestFails
  \/ PollWake
  \/ DownloadResponds
  \/ StreamFinishes
  \/ StreamAborted
  \/ NeverAnswered
  \/ AttemptSucceeds
  \/ RetryCatch
  \/ PrimaryRetryWake
  \/ PrimaryFailed
  \/ FallbackFailed
  \/ GeneratePlaceholder
  \/ Return
  \/ UnlinkRuns

Spec == Init /\ [][Next]_vars

\* the event loop runs a step whenever one is possible
LiveSpec == Spec /\ WF_vars(Next)

(***************************************************************************)
(* SpecPipeline: the routes of the server on one stored project            *)
(***************************************************************************)
ProjectIdInputs == {"p1", "nope"}
\* the shot ids of the single-shot requests: an id no shot has, the first
\* shot, and a shot that has a predecessor
ShotIdInputs == {0, 1, 2}
ModeInputs == {"undefined", "independent"}
RegenerateModes == {"undefined", "keyframe", "clip", "both"}

\* shot 1 after POST /shots/:shotId/regenerate (mode both) was served
RegeneratedShot(shot) ==
  generateClipForShot(generateKeyframeForShot(shot), NoShot, TRUE)

\* project.json as the server finds it when it starts: a project just
\* created, or one created with continuity_mode bridging whose storyboard
\* was made in an earlier run and whose first shot was regenerated twice
StoredProjects ==
  LET storyboarded ==
        [defaultProject("p1") EXCEPT
           !.shots = generateStoryboardShots(defaultProject("p1"))]
  IN {defaultProject("p1"),
      [storyboarded EXCEPT !.continuity_mode = "bridging",
                           !.shots[1] = RegeneratedShot(RegeneratedShot(@))]}

\* the asset files the earlier run left for the versions in the histories
StoredFiles(p) ==
  UNION {{p.shots[i].keyframe_versions[k].path : k \in DOMAIN p.shots[i].keyframe_versions}
           \cup {p.shots[i].clip_versions[k].path : k \in DOMAIN p.shots[i].clip_versions}
           \cup {FramePath(p.shots[i].id, p.shots[i].clip_versions[k].version) :
                   k \in DOMAIN p.shots[i].clip_versions} :
         i \in DOMAIN p.shots}

InitPipeline ==
  /\ project \in StoredProjects
  /\ work = defaultProject("p1")
  /\ ppc = "idle"
  /\ idx = 0
  /\ resolved = NoFrames
  /\ reply = NoReply
  /\ ops = 0
  /\ files = StoredFiles(project)
  /\ wrote = {}
  /\ changed = FALSE
  /\ DelayIdle
  /\ RetryIdle
  /\ GenIdle
  /\ ContIdle
  /\ ExportIdle
  /\ TrackerIdle

\* a request is accepted: requests are served one after the other
Accept ==
  /\ ppc = "idle"
  /\ ops < MaxOps
  /\ ops' = ops + 1

\* loadProject(id) found no project.json: 404 and nothing else
ProjectNotFound(route) ==
  /\ reply' = [route |-> route, status |-> 404, error |-> "Project not found"]
  /\ changed' = FALSE
  /\ wrote' = {}
  /\ resolved' = NoFrames
  /\ UNCHANGED <<project, work, ppc, idx, files>>

\* the route answers r and project.json holds r.project
Answer(route, r) ==
  /\ reply' = [route |-> route, status |-> r.status, error |-> r.error]
  /\ project' = r.project
  /\ changed' = (r.project.shots # project.shots)

\* POST /api/projects/:id/storyboard
Storyboard ==
  /\ Accept
  /\ \E id \in ProjectIdInputs :
       IF id # project.id
         THEN ProjectNotFound("storyboard")
         ELSE /\ Answer("storyboard",
                        Reply(200, "none",
                              saveProject([project EXCEPT
                                             !.shots = generateStoryboardShots(project)],
                                          ops + 1)))
              /\ wrote' = {}
              /\ resolved' = NoFrames
              /\ UNCHANGED <<work, ppc, idx, files>>
  /\ UNCHANGED <<delayVars, retryVars, genVars, contVars, exportVars, trackerVars>>

\* POST /api/projects/:id/settings
Settings ==
  /\ Accept
  /\ \E id \in ProjectIdInputs, mode \in ModeInputs :
       IF id # project.id
         THEN ProjectNotFound("settings")
         ELSE /\ Answer("settings",
                        Reply(200, "none",
                              saveProject([project EXCEPT
                                             !.continuity_mode =
                                                IF mode = "undefined" THEN @ ELSE mode],
                                          ops + 1)))
              /\ wrote' = {}
              /\ resolved' = NoFrames
              /\ UNCHANGED <<work, ppc, idx, files>>
  /\ UNCHANGED <<delayVars, retryVars, genVars, contVars, exportVars, trackerVars>>

\* POST /api/projects/:id/keyframes and /clips up to the loop
BatchStart ==
  /\ Accept
  /\ \E id \in ProjectIdInputs, route \in {"keyframes", "clips"} :
       IF id # project.id
         THEN ProjectNotFound(route)
         ELSE /\ work' = project
              /\ idx' = 1
              /\ ppc' = route
              /\ reply' = [route |-> route, status |-> 0, error |-> "none"]
              /\ changed' = FALSE
              /\ wrote' = {}
              /\ resolved' = NoFrames
              /\ UNCHANGED <<project, files>>
  /\ UNCHANGED <<delayVars, retryVars, genVars, contVars, exportVars, trackerVars>>

\* one pass of the loop of generateKeyframesForShots: generateImage returns
\* with the file written, then the shot is updated
KeyframesShot ==
  /\ ppc = "keyframes"
  /\ idx <= Len(work.shots)
  /\ files' = files \cup {KeyframePath(work.shots[idx].id, work.shots[idx].keyframe_version + 1)}
  /\ wrote' = {KeyframePath(work.shots[idx].id, work.shots[idx].keyframe_version + 1)}
  /\ work' = [work EXCEPT !.shots[idx] = KeyframeUpdate(@)]
  /\ idx' = NextShot(idx)
  /\ UNCHANGED <<project, ppc, resolved, reply, ops, changed>>
  /\ UNCHANGED <<delayVars, retryVars, genVars, contVars, exportVars, trackerVars>>

\* a pass of the loop of generateClipsForShots up to the await:
\* resolveFrames, then generateVideo is called
ClipsResolve ==
  /\ ppc = "clips"
  /\ idx <= Len(work.shots)
  /\ resolved' = resolveFrames(PipelineManager, PreviousShot(work.shots, idx),
                               work.shots[idx])
  /\ ppc' = "clipGen"
  /\ wrote' = {}
  /\ UNCHANGED <<project, work, idx, reply, ops, files, changed>>
  /\ UNCHANGED <<delayVars, retryVars, genVars, contVars, exportVars, trackerVars>>

\* generateVideo returned with the clip written: the shot is updated and
\* the last frame of the clip is saved
ClipsStore ==
  /\ ppc = "clipGen"
  /\ \E echoLast \in BOOLEAN :
       work' = [work EXCEPT !.shots[idx] =
                  ClipUpdate(PreviousShot(work.shots, idx), @, resolved,
                             VideoResponse(resolved, echoLast))]
  /\ files' = extractLastFrame(
                 files \cup {ClipPath(work.shots[idx].id, work.shots[idx].clip_version + 1)},
                 ClipPath(work.shots[idx].id, work.shots[idx].clip_version + 1),
                 FramePath(work.shots[idx].id, work.shots[idx].clip_version + 1))
  /\ wrote' = {ClipPath(work.shots[idx].id, work.shots[idx].clip_version + 1)}
  /\ idx' = NextShot(idx)
  /\ ppc' = "clips"
  /\ UNCHANGED <<project, resolved, reply, ops, changed>>
  /\ UNCHANGED <<delayVars, retryVars, genVars, contVars, exportVars, trackerVars>>

\* the loop is over: saveProject(updated) and the answer; the handler's
\* locals are gone
BatchFinish ==
  /\ ppc \in {"keyframes", "clips"}
  /\ idx > Len(work.shots)
  /\ Answer(ppc, Reply(200, "none", saveProject(work, ops)))
  /\ ppc' = "idle"
  /\ wrote' = {}
  /\ work' = defaultProject("p1")
  /\ idx' = 0
  /\ UNCHANGED <<resolved, ops, files>>
  /\ UNCHANGED <<delayVars, retryVars, genVars, contVars, exportVars, trackerVars>>

\* the generate call of the current shot throws (a write to the assets
\* directory fails): the handler's promise rejects, nothing is saved and no
\* answer is sent
StageThrows ==
  /\ \/ (ppc = "keyframes" /\ idx <= Len(work.shots))
     \/ ppc = "clipGen"
  /\ ppc' = "idle"
  /\ wrote' = {}
  /\ work' = defaultProject("p1")
  /\ idx' = 0
  /\ UNCHANGED <<project, resolved, reply, ops, files, changed>>
  /\ UNCHANGED <<delayVars, retryVars, genVars, contVars, exportVars, trackerVars>>

\* what the single-shot routes do to the shot at index i
ShotAfter(shots, i, mode, echoLast) ==
  LET k == IF mode \in {"keyframe", "both"}
             THEN generateKeyframeForShot(shots[i]) ELSE shots[i]
  IN IF mode \in {"clip", "both"}
       THEN generateClipForShot(k, PreviousShot(shots, i), echoLast)
       ELSE k

\* the frames generateClipForShot resolves in those routes
ShotFrames(shots, i, mode) ==
  resolveFrames(PipelineManager, PreviousShot(shots, i),
                IF mode = "both" THEN generateKeyframeForShot(shots[i]) ELSE shots[i])

\* the asset files those routes write
ShotWrites(before, after) ==
  (IF after.keyframe_versions # before.keyframe_versions
     THEN {after.keyframe_image_path} ELSE {})
  \cup (IF after.clip_versions # before.clip_versions THEN {after.clip_path} ELSE {})

\* where a single-shot route can throw: in the keyframe generator or in the
\* clip generator (a write to the assets directory fails)
ThrowPoints == {"none", "keyframe", "clip"}

ShotRouteThrowsSavesPartial(p, i, mode, threw) ==
  Reply(0, "none",
        IF threw = "clip" /\ mode = "both"
          THEN [p EXCEPT !.shots[i] = generateKeyframeForShot(@)]
          ELSE p)

\* a generator of a single-shot route throws: the handler's promise rejects
\* before saveProject(project), no answer is sent and project.json is the
\* one that was loaded
ShotRouteThrows(p, i, mode, threw) == Reply(0, "none", p)

\* the asset a single-shot route wrote before its second generator threw
WrittenBeforeThrow(shot, mode, threw) ==
  IF threw = "clip" /\ mode = "both"
    THEN {generateKeyframeForShot(shot).keyframe_image_path}
    ELSE {}

\* the single-shot routes and the generation mode each can run with:
\* /keyframe, /clip, and /regenerate with req.body?.mode || 'both'
ShotRoutes ==
  {<<"keyframe", "keyframe">>, <<"clip", "clip">>} \cup
  {<<"regenerate", m>> : m \in RegenerateModes}

\* POST /api/projects/:id/shots/:shotId/keyframe, /clip and /regenerate
ShotGenerate ==
  /\ Accept
  /\ \E id \in ProjectIdInputs, rm \in ShotRoutes :
       IF id # project.id
         THEN ProjectNotFound(rm[1])
         ELSE \E shotId \in ShotIdInputs :
           IF FindShotIndex(project.shots, shotId) = 0
             THEN /\ Answer(rm[1], Reply(404, "Shot not found", project))
                  /\ wrote' = {}
                  /\ resolved' = NoFrames
                  /\ UNCHANGED <<work, ppc, idx, files>>
             ELSE \E echoLast \in BOOLEAN, threw \in ThrowPoints :
               LET i == FindShotIndex(project.shots, shotId)
                   mode == IF rm[2] = "undefined" THEN "both" ELSE rm[2]
                   after == ShotAfter(project.shots, i, mode, echoLast)
               IN IF threw = "none"
                    THEN /\ Answer(rm[1],
                                   Reply(200, "none",
                                         saveProject([project EXCEPT !.shots[i] = after],
                                                     ops + 1)))
                         /\ wrote' = ShotWrites(project.shots[i], after)
                         /\ files' = (files \cup ShotWrites(project.shots[i], after)
                                        \cup (IF mode \in {"clip", "both"}
                                                THEN {after.continuity.last_frame_path}
                                                ELSE {}))
                         /\ resolved' = IF mode \in {"clip", "both"}
                                          THEN ShotFrames(project.shots, i, mode)
                                          ELSE NoFrames
                         /\ UNCHANGED <<work, ppc, idx>>
                    ELSE /\ threw = "keyframe" => mode \in {"keyframe", "both"}
                         /\ threw = "clip" => mode \in {"clip", "both"}
                         /\ Answer(rm[1], ShotRouteThrows(project, i, mode, threw))
                         /\ wrote' = WrittenBeforeThrow(project.shots[i], mode, threw)
                         /\ files' = files \cup WrittenBeforeThrow(project.shots[i], mode, threw)
                         /\ resolved' = NoFrames
                         /\ UNCHANGED <<work, ppc, idx>>
  /\ UNCHANGED <<delayVars, retryVars, genVars, contVars, exportVars, trackerVars>>

\* POST /api/projects/:id/shots/:shotId/rollback
Rollback ==
  /\ Accept
  /\ \E id \in ProjectIdInputs :
       IF id # project.id
         THEN ProjectNotFound("rollback")
         ELSE \E shotId \in ShotIdInputs, asset \in AssetInputs, version \in VersionInputs :
                /\ Answer("rollback",
                          RollbackRoute(project, shotId, asset, version, ops + 1))
                /\ wrote' = {}
                /\ resolved' = NoFrames
                /\ UNCHANGED <<work, ppc, idx, files>>
  /\ UNCHANGED <<delayVars, retryVars, genVars, contVars, exportVars, trackerVars>>

NextPipeline ==
  \/ Storyboard
  \/ Settings
  \/ BatchStart
  \/ KeyframesShot
  \/ ClipsResolve
  \/ ClipsStore
  \/ BatchFinish
  \/ StageThrows
  \/ ShotGenerate
  \/ Rollback

SpecPipeline == InitPipeline /\ [][NextPipeline]_vars

(***************************************************************************)
(* SpecStoryboard: the storyboard route on projects of any target duration *)
(* and script                                                              *)
(***************************************************************************)
\* target_duration as createProject stores it (input.target_duration || 30
\* is never 0)
TargetDurations == {-10, 1, 4, 6, 10, 30, 32, 33}

\* the stored projects with a target duration and script sections, each
\* section filled or empty
StoryboardProjects ==
  {[p EXCEPT !.target_duration = t, !.script = sc] :
     p \in StoredProjects, t \in TargetDurations, sc \in [Sections -> {"text", ""}]}

InitStoryboard ==
  /\ project \in StoryboardProjects
  /\ work = defaultProject("p1")
  /\ ppc = "idle"
  /\ idx = 0
  /\ resolved = NoFrames
  /\ reply = NoReply
  /\ ops = 0
  /\ files = StoredFiles(project)
  /\ wrote = {}
  /\ changed = FALSE
  /\ DelayIdle
  /\ RetryIdle
  /\ GenIdle
  /\ ContIdle
  /\ ExportIdle
  /\ TrackerIdle

SpecStoryboard == InitStoryboard /\ [][Storyboard]_vars

(***************************************************************************)
(* SpecExport: the export route on projects with any set of shots that     *)
(* have a clip                                                             *)
(***************************************************************************)
\* the stored projects: no storyboard yet, or a storyboard of which any
\* set of shots was regenerated (keyframe and clip)
ExportProjects ==
  {defaultProject("p1")} \cup
  {[defaultProject("p1") EXCEPT
      !.shots = [i \in 1..NumShots |->
                   IF i \in ready
                     THEN RegeneratedShot(StoryboardShot(defaultProject("p1"), i))
                     ELSE StoryboardShot(defaultProject("p1"), i)]] :
     ready \in SUBSET (1..NumShots)}

InitExport ==
  /\ project \in ExportProjects
  /\ work = defaultProject("p1")
  /\ ppc = "idle"
  /\ idx = 0
  /\ resolved = NoFrames
  /\ reply = NoReply
  /\ ops = 0
  /\ files = StoredFiles(project)
  /\ wrote = {}
  /\ changed = FALSE
  /\ concat = NoConcat
  /\ DelayIdle
  /\ RetryIdle
  /\ GenIdle
  /\ ContIdle
  /\ TrackerIdle

\* POST /api/projects/:id/export; when exportProjectVideo throws the
\* handler's promise rejects: nothing is saved and no answer is sent
\* (status 0), the error is what the call threw
Export ==
  /\ Accept
  /\ \E id \in ProjectIdInputs :
       IF id # project.id
         THEN ProjectNotFound("export") /\ concat' = NoConcat
         ELSE \E tool \in FfmpegOutcomes :
           LET r == exportProjectVideo(project, files, tool, ops + 1) IN
             /\ IF r.threw # "none"
                  THEN Answer("export", Reply(0, r.threw, project))
                  ELSE Answer("export", Reply(200, "none", saveProject(r.project, ops + 1)))
             /\ files' = r.files
             /\ wrote' = r.files \ files
             /\ concat' = r.concat
             /\ resolved' = NoFrames
             /\ UNCHANGED <<work, ppc, idx>>
  /\ UNCHANGED <<delayVars, retryVars, genVars, contVars, trackerVars>>

SpecExport == InitExport /\ [][Export]_vars

(***************************************************************************)
(* SpecResolve: a ContinuityManager is built and resolveFrames called once *)
(***************************************************************************)
\* what a caller can pass for supportsFirstLast and mode
FlagInputs == {"undefined", "false", "true"}
ManagerModes == {"undefined", "", "maintain", "bridging", "last-frame", "independent"}

\* the shots a caller can pass: a predecessor with or without keyframe and
\* stored last frame (or none), a current shot with or without keyframe
\* and cached prev_last_frame_path
PreviousShots ==
  {NoShot} \cup
  {[StoryboardShot(defaultProject("p1"), 1) EXCEPT
      !.keyframe_image_path = k, !.continuity.last_frame_path = f] :
     k \in {Null, KeyframePath(1, 1)}, f \in {Null, FramePath(1, 1)}}
CurrentShots ==
  {[StoryboardShot(defaultProject("p1"), 2) EXCEPT
      !.keyframe_image_path = k, !.continuity.prev_last_frame_path = f] :
     k \in {Null, KeyframePath(2, 1)}, f \in {Null, FramePath(1, 2)}}

InitResolve ==
  /\ cmArgs \in [supportsFirstLast : FlagInputs, mode : ManagerModes]
  /\ cmManager = PipelineManager
  /\ cmPrevious \in PreviousShots
  /\ cmCurrent \in CurrentShots
  /\ cmFrames = NoFrames
  /\ cmpc = "new"
  /\ DelayIdle
  /\ RetryIdle
  /\ GenIdle
  /\ PipeIdle
  /\ ExportIdle
  /\ TrackerIdle

\* new ContinuityManager({ supportsFirstLast, mode })
Construct ==
  /\ cmpc = "new"
  /\ cmManager' = ContinuityManager(cmArgs.supportsFirstLast, cmArgs.mode)
  /\ cmpc' = "ready"
  /\ UNCHANGED <<cmArgs, cmPrevious, cmCurrent, cmFrames>>
  /\ UNCHANGED <<delayVars, retryVars, genVars, pipeVars, exportVars, trackerVars>>

\* continuity.resolveFrames({ previousShot, currentShot })
ResolveFrames ==
  /\ cmpc = "ready"
  /\ cmFrames' = resolveFrames(cmManager, cmPrevious, cmCurrent)
  /\ cmpc' = "resolved"
  /\ UNCHANGED <<cmArgs, cmManager, cmPrevious, cmCurrent>>
  /\ UNCHANGED <<delayVars, retryVars, genVars, pipeVars, exportVars, trackerVars>>

NextResolve ==
  \/ Construct
  \/ ResolveFrames

SpecResolve == InitResolve /\ [][NextResolve]_vars

(***************************************************************************)
(* SpecTracker: generate calls in flight and the tracker they share        *)
(***************************************************************************)
InitTracker ==
  /\ session = reset
  /\ callers = [c \in Callers |-> NoOperation]
  /\ DelayIdle
  /\ RetryIdle
  /\ GenIdle
  /\ PipeIdle
  /\ ContIdle
  /\ ExportIdle

\* the operations recorded or about to be recorded
InFlight == {c \in Callers : callers[c] # NoOperation}

\* a generate call starts and awaits its backend; the estimate it will
\* record is fixed by its kind and backend
CallStarts ==
  /\ \E c \in Callers, type \in OperationTypes, provider \in {"gemini", "replicate"} :
       /\ callers[c] = NoOperation
       /\ type = "llm" => provider = "gemini"
       /\ Len(session.operations) + Cardinality(InFlight) < MaxOperations
       /\ callers' = [callers EXCEPT ![c] = Operation(type, provider,
                                                      EstimateCost(type, provider))]
  /\ UNCHANGED session
  /\ UNCHANGED <<delayVars, retryVars, genVars, pipeVars, contVars, exportVars>>

\* the backend of a call answered: tracker.addOperation(...) runs to its
\* end before any other callback does
CallRecords ==
  /\ \E c \in InFlight :
       /\ session' = addOperation(session, callers[c].type, callers[c].provider,
                                  callers[c].cost)
       /\ callers' = [callers EXCEPT ![c] = NoOperation]
  /\ UNCHANGED <<delayVars, retryVars, genVars, pipeVars, contVars, exportVars>>

\* the backend of a call failed for good: the placeholder, nothing recorded
CallDegrades ==
  /\ \E c \in InFlight : callers' = [callers EXCEPT ![c] = NoOperation]
  /\ UNCHANGED session
  /\ UNCHANGED <<delayVars, retryVars, genVars, pipeVars, contVars, exportVars>>

\* tracker.reset() on request, also while calls are in flight
TrackerReset ==
  /\ session # reset
  /\ session' = reset
  /\ UNCHANGED callers
  /\ UNCHANGED <<delayVars, retryVars, genVars, pipeVars, contVars, exportVars>>

NextTracker ==
  \/ CallStarts
  \/ CallRecords
  \/ CallDegrades
  \/ TrackerReset

SpecTracker == InitTracker /\ [][NextTracker]_vars

(***************************************************************************)
(* Properties of calculateDelay (SpecDelay)                                *)
(***************************************************************************)
dExponential == dInitialDelay * Pow(dMultiplier, dAttempt - 1)

\* C3 as stated: the delay computed by calculateDelay lies in the closed
\* interval [initialDelay * multiplier^(n-1), maxDelay].
C3_DelayWithinStatedInterval ==
  dpc = "done" =>
    /\ dExponential * Scale <= dResult
    /\ dResult <= dMaxDelay * Scale

\* C3 amended: the delay lies in the closed interval
\* [min(initialDelay * multiplier^(n-1), maxDelay), maxDelay].
C3_DelayWithinCappedInterval ==
  dpc = "done" =>
    /\ Min(dExponential, dMaxDelay) * Scale <= dResult
    /\ dResult <= dMaxDelay * Scale

\* a delay was computed for an attempt whose exponential delay is above the cap
C3_Witness ==
  /\ dpc = "done"
  /\ dExponential > dMaxDelay
  /\ dRandom > 0
  /\ dResult = dMaxDelay * Scale

(***************************************************************************)
(* Properties of retry() (SpecRetry)                                       *)
(***************************************************************************)
FailedRetryably(k) ==
  /\ rOutcomes[k] # "ok"
  /\ isRetryable(ErrorOf(rOutcomes[k]), Opts.retryableErrors)

\* C2: retry() invokes the operation at least once and at most
\* maxRetries + 1 times, the k-th invocation receives attempt number k, and
\* the operation is invoked exactly maxRetries + 1 times when every attempt
\* fails with a retryable error.
C2_AttemptsBounded ==
  /\ Len(rLog) <= Opts.maxRetries + 1
  /\ \A k \in 1..Len(rLog) : rLog[k] = k
  /\ rpc \in {"returned", "thrown"} => Len(rLog) >= 1
  /\ (rpc = "thrown" /\ \A k \in 1..Len(rOutcomes) : FailedRetryably(k))
       => Len(rLog) = Opts.maxRetries + 1

\* every attempt of a policy with three retries failed with a retryable error
C2_Witness ==
  /\ rpc = "thrown"
  /\ Opts.maxRetries = 3
  /\ Len(rLog) = 4
  /\ \A k \in 1..Len(rOutcomes) : FailedRetryably(k)

\* C4: when an attempt fails with an error that does not match the retryable
\* list, or the failing attempt is number maxRetries + 1, retry() makes no
\* further attempt, does not sleep, and throws the error of that attempt.
C4_StopsAndThrowsLastError ==
  \A k \in 1..Len(rOutcomes) :
    (rOutcomes[k] # "ok" /\ (~FailedRetryably(k) \/ k = Opts.maxRetries + 1))
      => /\ Len(rLog) = k
         /\ rSleeps = k - 1
         /\ rpc = "thrown"
         /\ rThrown = rOutcomes[k]

\* a second attempt failed with a non-retryable error after one sleep
C4_Witness ==
  /\ rpc = "thrown"
  /\ Len(rOutcomes) = 2
  /\ Opts.maxRetries = 3
  /\ ~FailedRetryably(2)
  /\ rThrown = rOutcomes[2]

ProviderPolicies ==
  {getRetryConfig("gemini"), getRetryConfig("replicate"), getRetryConfig("other")}

\* C5: under every provider policy returned by getRetryConfig, an attempt
\* that fails with a transient error (connection reset, timeout, rate limit,
\* HTTP 500/502/503/504) while retries remain is followed by another attempt.
C5_TransientErrorsRetried ==
  \A k \in 1..Len(rOutcomes) :
    (rOptions \in ProviderPolicies /\ rOutcomes[k] \in TransientErrors
       /\ k <= Opts.maxRetries)
      => \/ Len(rLog) > k
         \/ (Len(rLog) = k /\ rpc = "sleeping")


(***************************************************************************)
(* Properties of a generate call (Spec, LiveSpec)                          *)
(***************************************************************************)
Done == pc \in {"resolving", "returned"}

\* the call ended in the placeholder: a result without a ledger entry
Degraded == Done /\ ledger = <<>>

\* C1: a generateVideo or generateImage call that is given an output path
\* returns a result instead of throwing, and a file exists at the output
\* path at the moment it returns.
C1_ReturnsWithFileAtPath ==
  /\ []((self.kind \in {"image", "video"} /\ params.outputPath # "none") => pc # "threw")
  /\ [][(self.kind \in {"image", "video"} /\ pc = "resolving" /\ pc' = "returned")
          => file' # "absent"]_vars

PollTimeouts == {"VEO_TIMED_OUT", "REPLICATE_TIMED_OUT"}

\* the backend that is not the one a timeout error came from
SecondaryOf(timeout) ==
  IF timeout = "VEO_TIMED_OUT" THEN PROVIDERS.REPLICATE ELSE PROVIDERS.GEMINI

HasCredentials(b) ==
  IF b = PROVIDERS.GEMINI THEN self.geminiApiKey ELSE self.replicateApiKey

C7_FallbackFailureRetried ==
  (fallbackError # "none"
     /\ isRetryable(ErrorOf(fallbackError),
                    MergeOptions(getRetryConfig(backend)).retryableErrors))
    => calls[backend] >= 2

\* C8 as stated: whenever generate degrades to the placeholder the result
\* names its provider "placeholder" and, in the failure case, carries the
\* error that triggered the degradation.
C8_PlaceholderNamedPlaceholder ==
  Degraded =>
    /\ result.provider = "placeholder"
    /\ primaryError # "none" => result.error = primaryError

\* C8 amended: the result names its provider "placeholder" with no error
\* when no backend is configured, and "placeholder-fallback" with the error
\* of the primary backend when the attempted backends failed.
C8_PlaceholderNamedByCause ==
  Degraded =>
    /\ primaryError = "none"
         => (result.provider = "placeholder" /\ result.error = "null" /\ stage = "none")
    /\ primaryError # "none"
         => (result.provider = "placeholder-fallback" /\ result.error = primaryError)

\* both backends failed and the call returned the placeholder
C8_Witness ==
  /\ pc = "returned"
  /\ Degraded
  /\ fallbackError # "none"
  /\ fallbackError # primaryError
  /\ result.provider = "placeholder-fallback"
  /\ file = "placeholder"

\* C9: every generate call eventually returns a result or an error.
C9_EveryCallReturns == <>(pc \in {"returned", "threw"})

\* status responses that report an explicit failure or a cancellation
ExplicitFailures == {"done_error", "failed", "canceled"}

\* C10: each polling loop performs at most its maximum number of status
\* checks; an explicit failure or a cancellation ends the loop with an error
\* at that check, and reaching the maximum ends it with a timeout error.
C10_PollingLoopsBoundedAndTerminal ==
  /\ pc \in {"poll", "pollSleep"} => polls <= MaxPollAttempts(self, backend)
  /\ pc = "pollSleep" => polls < MaxPollAttempts(self, backend)
  /\ pc = "pollSleep" => lastStatus \notin ExplicitFailures
  /\ err \in PollTimeouts => polls = MaxPollAttempts(self, backend)

\* C11: the destination path never holds an empty or truncated file left by
\* a failed download: such a file is there only while a download is writing
\* it (a download that never ends included), or until the removal a failed
\* download has already issued has run
C11_NoTruncatedFileLeft ==
  file \in {"empty", "partial"} =>
    (pc \in {"download", "streaming", "hung"} \/ unlinkPending)

\* the errors of a motion-control generation that lacks an input
MissingInputErrors == {"MOTION_NO_IMAGE", "MOTION_NO_VIDEO"}

\* C13: a motion-control generation without its first frame or its motion
\* reference surfaces the error: the call never goes on to the fallback
\* backend or the placeholder, and never returns a result in its place
C13_MissingFrameSurfaces ==
  (err \in MissingInputErrors \/ primaryError \in MissingInputErrors) =>
    /\ stage = "primary"
    /\ pc \notin {"degrade", "resolving", "returned"}

\* C14: a generate call with no output path throws at once: no backend is
\* contacted, no file written, no ledger entry added, no placeholder made
C14_NoOutputPathThrows ==
  (self.kind # "llm" /\ params.outputPath = "none") =>
    /\ pc \in {"start", "threw"}
    /\ pc = "threw" => err = "OUTPUT_PATH_REQUIRED"
    /\ calls = [gemini |-> 0, replicate |-> 0]
    /\ request = NoRequest
    /\ file = "absent"
    /\ ledger = <<>>
    /\ result = NoResult

C14_Witness ==
  /\ self.kind # "llm" /\ params.outputPath = "none"
  /\ self.useReal /\ self.geminiApiKey
  /\ pc = "threw" /\ err = "OUTPUT_PATH_REQUIRED"

\* C12: a text response in which hook, problem, solution or cta is missing
\* or empty is rejected as an error, the error takes the retry-then-degrade
\* chain of any other backend error, and the script generateScript returns
\* has four non-empty sections
C12_IncompleteScriptRejected ==
  /\ [](self.kind = "llm" =>
          /\ (Done /\ result.provider = "gemini") =>
                (script = response /\ \A f \in Sections : Truthy(script[f]))
          /\ (Done /\ primaryError = "SCRIPT_MISSING") =>
                /\ result.provider = "placeholder-fallback"
                /\ result.error = "SCRIPT_MISSING"
                /\ script = PlaceholderScript
          /\ Done => \A f \in Sections : Truthy(script[f]))
  /\ [][(self.kind = "llm" /\ pc = "request" /\ response' # response
          /\ \E f \in Sections : ~Truthy(response'[f]))
         => (pc' = "catch" /\ err' = "SCRIPT_MISSING")]_vars
  /\ [][(pc = "catch" /\ stage = "primary" /\ err = "SCRIPT_MISSING")
         => pc' = (IF CatchDecision(attempt, ErrorOf(err), GenOpts) = "break"
                     THEN "primaryFailed" ELSE "retrySleep")]_vars

C12_Witness ==
  /\ self.kind = "llm"
  /\ pc = "returned"
  /\ response.cta = "missing" /\ response.hook = "text"
  /\ primaryError = "SCRIPT_MISSING"
  /\ result.provider = "placeholder-fallback"

\* C29: every generate call that returns a result, from the primary
\* backend, the fallback backend or the placeholder, has appended exactly
\* one entry to the cost ledger
C29_EveryResultInLedger ==
  pc = "returned" => Len(ledger) = 1

\* C30: after a keyframe or clip generation has returned, the backend the
\* pipeline writes into the shot's provider-config record (the provider's
\* name field) is the backend that produced the asset, the fallback backend
\* and the placeholder included
C30_ProviderConfigNamesProducer ==
  (pc = "returned" /\ self.kind \in {"image", "video"}) =>
    result.provider =
      (IF _updateActiveInfo(self).name = PROVIDERS.PLACEHOLDER
         THEN "placeholder"
         ELSE BackendProviderName(self, _updateActiveInfo(self).name))

(***************************************************************************)
(* Claims about versions, rollback and continuity                          *)
(***************************************************************************)
\* no version number occurs twice in a history log
DistinctVersions(log) ==
  \A k, l \in DOMAIN log : log[k].version = log[l].version => k = l

\* log a is the beginning of log b
IsPrefix(a, b) == Len(a) <= Len(b) /\ \A k \in DOMAIN a : a[k] = b[k]

\* C15: every generation for a shot produces a version number greater than
\* every version produced earlier for that shot and asset kind (the assets
\* on disk), no two history entries of a shot share a version number, and
\* no request removes an entry from a shot's history
C15_VersionsStrictlyIncrease ==
  /\ [][\A w \in wrote' : \A f \in files :
          (f[1] = w[1] /\ f[2] = w[2]) => f[3] < w[3]]_vars
  /\ [](\A i \in DOMAIN project.shots :
          /\ DistinctVersions(project.shots[i].keyframe_versions)
          /\ DistinctVersions(project.shots[i].clip_versions))
  /\ [][\A i \in DOMAIN project.shots :
          /\ i \in DOMAIN project'.shots
          /\ IsPrefix(project.shots[i].keyframe_versions, project'.shots[i].keyframe_versions)
          /\ IsPrefix(project.shots[i].clip_versions, project'.shots[i].clip_versions)]_vars

\* the version of the asset kind that is active on a shot
ActiveVersion(shot, asset) ==
  IF asset = "keyframe" THEN shot.keyframe_version ELSE shot.clip_version

\* the history log of the asset kind on a shot
LogOf(shot, asset) ==
  IF asset = "keyframe" THEN shot.keyframe_versions ELSE shot.clip_versions

\* C16: whenever the server can take a request, a rollback to the version
\* that is already active leaves the shot's history and active pointer (the
\* whole shot list) as they were, and the same rollback applied twice gives
\* the state it gives applied once
C16_RollbackIdempotent ==
  (ppc = "idle" /\ ops < MaxOps) =>
  \A shotId \in ShotIdInputs, asset \in AssetInputs, version \in VersionInputs :
    LET once == RollbackRoute(project, shotId, asset, version, ops + 1)
        twice == RollbackRoute(once.project, shotId, asset, version, ops + 1)
        i == FindShotIndex(project.shots, shotId)
    IN /\ twice = once
       /\ (/\ i # 0
           /\ asset \in {"keyframe", "clip"}
           /\ ~IsNaNVersion(version)
           /\ NumberOf(version) = ActiveVersion(project.shots[i], asset))
          => once.project.shots = project.shots

\* a rollback to the active version was answered with success, on a shot
\* whose keyframe history holds a later version than the active one
C16_Witness ==
  /\ reply.route = "rollback" /\ reply.status = 200
  /\ ~changed
  /\ \E i \in DOMAIN project.shots :
       /\ Len(project.shots[i].keyframe_versions) = 2
       /\ project.shots[i].keyframe_version = 1
       /\ project.shots[i].keyframe_image_path = KeyframePath(i, 1)

\* a rollback request that must fail on project p
BadRollback(p, shotId, asset, version) ==
  LET i == FindShotIndex(p.shots, shotId) IN
    \/ i = 0
    \/ asset \notin {"keyframe", "clip"}
    \/ version = "undefined"
    \/ \A k \in DOMAIN LogOf(p.shots[i], asset) :
         LogOf(p.shots[i], asset)[k].version # NumberOf(version)

\* C17: a rollback that names a missing project or shot, a version absent
\* from the history, an unknown asset kind or no version is answered with
\* an error and leaves project.json as it was
C17_BadRollbackRejected ==
  /\ []((ppc = "idle" /\ ops < MaxOps) =>
        \A shotId \in ShotIdInputs, asset \in AssetInputs, version \in VersionInputs :
          BadRollback(project, shotId, asset, version) =>
            LET r == RollbackRoute(project, shotId, asset, version, ops + 1)
            IN r.status \in {400, 404} /\ r.project = project)
  /\ [][(ops' = ops + 1 /\ reply'.route = "rollback" /\ reply'.status # 200)
         => (reply'.status \in {400, 404} /\ project' = project)]_vars

\* a version absent from a non-empty history was asked for
C17_Witness ==
  /\ reply.route = "rollback" /\ reply.status = 404
  /\ reply.error = "Keyframe version not found"
  /\ ~changed
  /\ \E i \in DOMAIN project.shots : Len(project.shots[i].keyframe_versions) = 2

\* the frames of shot i-1 among the frames a resolution returned
PredecessorFrames(frames, prevId) ==
  {f \in {frames.firstFramePath, frames.targetLastFramePath} :
     f # Null /\ f[1] = "frames" /\ f[2] = prevId}

C19_BatchClipsInOrder ==
  ppc \in {"clips", "clipGen"} =>
    /\ \A j \in DOMAIN work.shots :
         IF j < idx
           THEN /\ work.shots[j].clip_version = project.shots[j].clip_version + 1
                /\ work.shots[j].clip_path = ClipPath(j, work.shots[j].clip_version)
                /\ work.shots[j].clip_path \in files
                /\ work.shots[j].continuity.last_frame_path
                     = FramePath(j, work.shots[j].clip_version)
                /\ work.shots[j].continuity.last_frame_path \in files
           ELSE work.shots[j] = project.shots[j]
    /\ (ppc = "clipGen" /\ idx > 1) =>
         PredecessorFrames(resolved, idx - 1)
           = {FramePath(idx - 1, project.shots[idx - 1].clip_version + 1)}

C19_Witness ==
  /\ ppc = "clipGen" /\ idx = 2
  /\ work.shots[1].clip_version = 2
  /\ resolved.targetLastFramePath = FramePath(1, 2)

\* continuity records a predecessor could carry instead of its own
AltContinuity(prev) ==
  {EmptyContinuity,
   [EmptyContinuity EXCEPT !.last_frame_path = FramePath(prev.id, 1)],
   [EmptyContinuity EXCEPT !.last_frame_path = FramePath(prev.id, 2),
                           !.first_frame_path = KeyframePath(prev.id, 1)]}

\* C20: in continuity mode independent the frames chosen for a shot and
\* everything the clip generation writes onto it are the same whatever the
\* predecessor's continuity record holds
C20_IndependentIgnoresPredecessor ==
  (ppc = "clipGen" /\ idx > 1 /\ work.continuity_mode = "independent") =>
    \A c \in AltContinuity(work.shots[idx - 1]), echoLast \in BOOLEAN :
      LET prev == work.shots[idx - 1]
          other == [prev EXCEPT !.continuity = c]
          frames == resolveFrames(PipelineManager, other, work.shots[idx])
      IN /\ frames = resolved
         /\ ClipUpdate(other, work.shots[idx], frames, VideoResponse(frames, echoLast))
              = ClipUpdate(prev, work.shots[idx], resolved, VideoResponse(resolved, echoLast))

\* C21: in bridging mode, for a video backend without dual-endpoint
\* conditioning, the clip of every shot after the first is conditioned on
\* the previous shot's last frame (or, if absent, its keyframe) as start
\* frame and on no end frame, as the last-frame mode would have it
C21_BridgingFallsBackToLastFrame ==
  (ppc = "clipGen" /\ idx > 1 /\ work.continuity_mode = "bridging") =>
    \A model \in VideoModels :
      ~supportsLastFrame(model) =>
        LET prev == work.shots[idx - 1] IN
          /\ Conditioning(model, resolved)
               = [image |-> Or(prev.continuity.last_frame_path, prev.keyframe_image_path),
                  lastFrame |-> Null]
          /\ Conditioning(model, resolved)
               = Conditioning(model, resolveFrames(ContinuityManager("false", "last-frame"),
                                                   prev, work.shots[idx]))

\* C24: a clip generation leaves on the shot's continuity record the one
\* last-frame reference of the clip version it made active, with the frame
\* on disk, and extracting again for that version gives the same
\* reference and the same files
C24_OneLastFramePerActiveClip ==
  [][\A w \in wrote' :
       w[1] = "clips" =>
         LET shot == IF ppc' = "clips" THEN work'.shots[w[2]] ELSE project'.shots[w[2]] IN
           /\ shot.clip_version = w[3]
           /\ shot.clip_path = w
           /\ shot.continuity.last_frame_path = FramePath(w[2], w[3])
           /\ FramePath(w[2], w[3]) \in files'
           /\ extractLastFrame(files', w, FramePath(w[2], w[3])) = files'
           /\ [shot EXCEPT !.continuity.last_frame_path = FramePath(w[2], shot.clip_version)]
                = shot]_vars

\* a batch run made version 1 of shot 1's clip again, after a storyboard
\* reset, while the frames of the earlier versions 1 and 2 were on disk
C24_Witness ==
  /\ ppc = "clips" /\ idx = 2
  /\ wrote = {ClipPath(1, 1)}
  /\ {FramePath(1, 1), FramePath(1, 2)} \subseteq files
  /\ work.shots[1].continuity.last_frame_path = FramePath(1, 1)

(***************************************************************************)
(* Claims about the storyboard (SpecStoryboard)                            *)
(***************************************************************************)
\* C25: the storyboard of any project has exactly four shots, for hook,
\* problem, solution and cta in this order, each with the duration
\* max(2, r) where r is the integer nearest to target_duration / 4 (a half
\* goes up); target duration 32 gives 8 for every shot; and the shots
\* depend on nothing but the project's target duration and script
C25_StoryboardFourEvenShots ==
  /\ []((reply.route = "storyboard" /\ reply.status = 200) =>
          /\ Len(project.shots) = 4
          /\ \A i \in 1..4 :
               /\ project.shots[i].on_screen_text[1]
                    = <<"hook", "problem", "solution", "cta">>[i]
               /\ project.shots[i].order = i
               /\ \E r \in -4..10 :
                    /\ 4 * r - 2 <= project.target_duration
                    /\ project.target_duration < 4 * r + 2
                    /\ project.shots[i].duration_sec = IF r > 2 THEN r ELSE 2
               /\ project.target_duration = 32 => project.shots[i].duration_sec = 8)
  /\ [][(reply'.route = "storyboard" /\ reply'.status = 200 /\ ops' = ops + 1) =>
          /\ project'.shots = generateStoryboardShots(project)
          /\ \A q \in StoryboardProjects :
               (q.target_duration = project.target_duration /\ q.script = project.script)
                 => generateStoryboardShots(q) = project'.shots]_vars

\* the storyboard of a project with target duration 32 replaced the shots
\* of an earlier storyboard
C25_Witness ==
  /\ reply.route = "storyboard" /\ reply.status = 200
  /\ changed
  /\ project.target_duration = 32
  /\ Len(project.shots) = 4
  /\ \A i \in 1..4 : project.shots[i].duration_sec = 8

(***************************************************************************)
(* Claims about the export (SpecExport)                                    *)
(***************************************************************************)
\* the last request was an export of the stored project
Exported == reply.route = "export" /\ reply.error # "Project not found"

\* C26: an export of a project in which no shot has a clip fails with the
\* error "No clips available for export.", writes no file and adds no
\* entry to the export history
C26_ExportWithoutClipsFails ==
  [][(ops' = ops + 1 /\ Exported' /\ \A i \in DOMAIN project.shots :
                                        project.shots[i].clip_path = Null)
       => /\ reply'.error = "No clips available for export."
          /\ reply'.status # 200
          /\ files' = files
          /\ wrote' = {}
          /\ concat'.output = "none"
          /\ project' = project]_vars

\* an export of a storyboard of four shots without clips was refused
C26_Witness ==
  /\ Exported /\ reply.error = "No clips available for export."
  /\ Len(project.shots) = 4
  /\ project.exports = <<>>
  /\ files = {}

\* the shots of the stored project that have a clip
WithClip == {i \in DOMAIN project.shots : project.shots[i].clip_path # Null}

\* C27 as stated: a successful export has stitched the active clip of
\* every shot of the project, each exactly once and in ascending shot
\* order, and no shot is left out
C27_ExportStitchesEveryShot ==
  (Exported /\ reply.status = 200) =>
    /\ concat.output = "stitched"
    /\ Len(concat.clips) = Len(project.shots)
    /\ \A i \in DOMAIN project.shots : concat.clips[i] = project.shots[i].clip_path

\* C27 amended: an export that succeeds without a warning has stitched the
\* active clip of every shot that has one, each exactly once and in
\* ascending shot order; shots without a clip are left out, and an export
\* that succeeds with a warning wrote a placeholder instead
C27_ExportStitchesShotsWithClip ==
  (Exported /\ reply.status = 200) =>
    IF project.exports[Len(project.exports)].warning = "null"
      THEN /\ concat.output = "stitched"
           /\ Len(concat.clips) = Cardinality(WithClip)
           /\ \A k \in DOMAIN concat.clips :
                \E i \in WithClip :
                  /\ Cardinality({j \in WithClip : j <= i}) = k
                  /\ concat.clips[k] = project.shots[i].clip_path
      ELSE concat.output = "placeholder"

\* shots 2 and 4 have a clip, shots 1 and 3 have none, and the export
\* stitched the two clips
C27_Witness ==
  /\ Exported /\ reply.status = 200
  /\ WithClip = {2, 4}
  /\ concat = [clips |-> <<ClipPath(2, 1), ClipPath(4, 1)>>, output |-> "stitched"]

\* C28: an export with the stitching tool missing or failing succeeds,
\* writes the placeholder at the output path and appends one entry with a
\* non-empty warning; every successful export appends exactly one entry
\* and leaves the earlier entries as they were
C28_ExportDegradesAndRecords ==
  [][(ops' = ops + 1 /\ Exported')
       => /\ reply'.status = 200 <=> WithClip # {}
          /\ reply'.status = 200 =>
               /\ Len(project'.exports) = Len(project.exports) + 1
               /\ SubSeq(project'.exports, 1, Len(project.exports)) = project.exports
               /\ project'.exports[Len(project'.exports)].path \in files'
               /\ concat'.output = "placeholder" =>
                    /\ project'.exports[Len(project'.exports)].warning
                         \in {"ffmpeg missing: wrote placeholder export",
                              "ffmpeg failed: wrote placeholder export"}
                    /\ project'.exports[Len(project'.exports)].path \in wrote']_vars

\* a second export, with ffmpeg missing, after a first one that stitched
C28_Witness ==
  /\ Exported /\ reply.status = 200
  /\ Len(project.exports) = 2
  /\ project.exports[1].warning = "null"
  /\ project.exports[2].warning = "ffmpeg missing: wrote placeholder export"
  /\ concat.output = "placeholder"
  /\ ExportPath(2) \in wrote

(***************************************************************************)
(* Claims about resolveFrames (SpecResolve)                                *)
(***************************************************************************)
\* C22: in last-frame mode, for a shot with a predecessor the start frame
\* is the last frame stored on the predecessor's continuity record when
\* one is stored and the predecessor's keyframe otherwise, and the
\* end-frame target is absent for every shot
C22_LastFrameMode ==
  (cmpc = "resolved" /\ cmManager.mode = "last-frame") =>
    /\ cmFrames.targetLastFramePath = Null
    /\ cmPrevious # NoShot =>
         cmFrames.firstFramePath =
           IF cmPrevious.continuity.last_frame_path # Null
             THEN cmPrevious.continuity.last_frame_path
             ELSE cmPrevious.keyframe_image_path

\* last-frame mode resolved for a predecessor that has both a keyframe and
\* a stored last frame
C22_Witness ==
  /\ cmpc = "resolved" /\ cmArgs.mode = "last-frame"
  /\ cmPrevious # NoShot
  /\ cmPrevious.keyframe_image_path = KeyframePath(1, 1)
  /\ cmFrames.firstFramePath = FramePath(1, 1)

\* C23: for a shot with no predecessor resolveFrames returns the shot's
\* own keyframe as start frame and no end-frame target, in every mode and
\* for either value of the capability flag
C23_FirstShotOwnKeyframe ==
  (cmpc = "resolved" /\ cmPrevious = NoShot) =>
    /\ cmFrames.firstFramePath = cmCurrent.keyframe_image_path
    /\ cmFrames.targetLastFramePath = Null

\* a first shot with a keyframe was resolved in last-frame mode without
\* the capability
C23_Witness ==
  /\ cmpc = "resolved" /\ cmPrevious = NoShot
  /\ cmArgs = [supportsFirstLast |-> "false", mode |-> "last-frame"]
  /\ cmFrames.firstFramePath = KeyframePath(2, 1)

\* the mode values the constructor and resolveFrames know by name
NamedModes == {"independent", "last-frame", "bridging"}

\* C39: a ContinuityManager built with no mode, or with a mode that is none
\* of independent, last-frame and bridging (such as the project default
\* "maintain"), resolves every pair of shots to the frames a manager built
\* with mode bridging and the same capability flag resolves them to
C39_UnknownModeIsBridging ==
  (cmpc = "resolved" /\ cmArgs.mode \notin NamedModes) =>
    cmFrames = resolveFrames(ContinuityManager(cmArgs.supportsFirstLast, "bridging"),
                             cmPrevious, cmCurrent)

\* a manager built with mode "maintain" and the capability resolved a shot
\* whose predecessor has a stored last frame to the bridging pair
C39_Witness ==
  /\ cmpc = "resolved"
  /\ cmArgs = [supportsFirstLast |-> "true", mode |-> "maintain"]
  /\ cmManager.mode = "maintain"
  /\ cmPrevious # NoShot
  /\ cmFrames.firstFramePath = cmCurrent.keyframe_image_path
  /\ cmFrames.targetLastFramePath = FramePath(1, 1)

(***************************************************************************)
(* Claims about the frame of rollback and regenerate                       *)
(***************************************************************************)

\* the shot after differs from the shot before at most in the active
\* pointer of the asset kind: version and path, and for a clip the stored
\* last frame that goes with the active clip
OnlyPointerMoved(before, after, asset) ==
  IF asset = "keyframe"
    THEN after = [before EXCEPT !.keyframe_version = after.keyframe_version,
                                !.keyframe_image_path = after.keyframe_image_path]
    ELSE after = [before EXCEPT !.clip_version = after.clip_version,
                                !.clip_path = after.clip_path,
                                !.continuity.last_frame_path =
                                   after.continuity.last_frame_path]

C32_OnlyCredentialedBackendsContacted ==
  /\ \A b \in {PROVIDERS.GEMINI, PROVIDERS.REPLICATE} :
       calls[b] > 0 => (self.useReal /\ HasCredentials(b))
  /\ request # NoRequest => (self.useReal /\ HasCredentials(request.to))
  /\ (~self.useReal \/ (~self.geminiApiKey /\ ~self.replicateApiKey))
       => (calls = [gemini |-> 0, replicate |-> 0] /\ request = NoRequest /\ stage = "none")
  /\ stage = "fallback" =>
       /\ backend # _getActiveProvider(self)
       /\ backend \in {PROVIDERS.GEMINI, PROVIDERS.REPLICATE}
       /\ calls[_getActiveProvider(self)] >= 1

\* a call configured for replicate with both credentials entered replicate
\* first, then gemini as the fallback, and returned gemini's asset
C32_Witness ==
  /\ pc = "returned"
  /\ self.useReal /\ self.provider = PROVIDERS.REPLICATE
  /\ self.geminiApiKey /\ self.replicateApiKey
  /\ stage = "fallback" /\ backend = PROVIDERS.GEMINI
  /\ calls[PROVIDERS.REPLICATE] >= 1 /\ calls[PROVIDERS.GEMINI] >= 1
  /\ result.fallbackUsed = "true"

\* the backends of a provider other than b
OtherBackends(b) == {PROVIDERS.GEMINI, PROVIDERS.REPLICATE} \ {b}

\* the call produced its result: a backend's asset or the placeholder
HasResult == result # NoResult

\* C33: within one generate call every attempt of the primary backend comes
\* before any attempt of the fallback backend; the fallback backend is
\* entered at most once and only after the primary has failed; the
\* placeholder is synthesized only after every attempted backend has
\* failed; and once a step has produced the result no later step runs
C33_StepsInFixedOrder ==
  /\ [](stage # "fallback" =>
          \A b \in OtherBackends(_getActiveProvider(self)) : calls[b] = 0)
  /\ [](stage = "fallback" =>
          /\ primaryError # "none"
          /\ calls[_getActiveProvider(self)] >= 1
          /\ calls[backend] <= 1)
  /\ [][stage = "fallback" =>
          calls'[_getActiveProvider(self)] = calls[_getActiveProvider(self)]]_vars
  /\ []((HasResult /\ result.provider \in {"placeholder", "placeholder-fallback"}) =>
          /\ calls[PROVIDERS.GEMINI] + calls[PROVIDERS.REPLICATE] > 0
               => primaryError # "none"
          /\ stage = "fallback" => fallbackError # "none"
          /\ ledger = <<>>)
  /\ [][HasResult =>
          (calls' = calls /\ result' = result /\ stage' = stage /\ ledger' = ledger)]_vars

\* the primary backend was attempted more than once, then the fallback
\* once, then the placeholder was returned
C33_Witness ==
  /\ pc = "returned"
  /\ stage = "fallback"
  /\ calls[_getActiveProvider(self)] >= 2
  /\ calls[backend] = 1
  /\ fallbackError # "none"
  /\ result.provider = "placeholder-fallback"

(***************************************************************************)
(* Claims about the download and its cleanup (Spec)                        *)
(***************************************************************************)

\* C34: once a later step of the call (the fallback backend or the
\* placeholder) has written the asset and the call has its result, the
\* cleanup a failed download left behind never removes or truncates the
\* file at the output path: no step changes the file any more
C34_CleanupNeverRemovesLaterAsset ==
  [][(self.kind \in {"image", "video"} /\ HasResult /\ primaryError # "none")
       => file' = file]_vars

\* C36: a download answered with a non-success status never ends in a
\* successful generation: the body of the error response is never what the
\* output path holds, and a call that returns a backend's result has that
\* backend's asset at the output path or, after the cleanup of an earlier
\* failed download, nothing of the error response
C36_ErrorStatusNeverStoredAsAsset ==
  /\ file # "errorBody"
  /\ streamBody = "errorBody" => pc \notin {"attemptDone", "resolving", "returned"}

(***************************************************************************)
(* Claims about the cost tracker (SpecTracker)                             *)
(***************************************************************************)
RECURSIVE SumCosts(_, _)
\* the sum of the costs of the entries of log whose type is in types
SumCosts(log, types) ==
  IF log = <<>> THEN 0
  ELSE (IF Head(log).type \in types THEN Head(log).cost ELSE 0) + SumCosts(Tail(log), types)

\* C35: under every interleaving of generate calls and reset requests the
\* tracker's total is the sum of the costs of the entries recorded since
\* the last reset, each per-kind total is the sum for that kind, every
\* entry is appended behind the entries already there, and only a reset
\* removes entries
C35_LedgerTotalsAndOrder ==
  /\ [](/\ session.totals.total = SumCosts(session.operations, OperationTypes)
        /\ \A t \in OperationTypes :
             session.totals[t] = SumCosts(session.operations, {t}))
  /\ [][session'.operations # session.operations =>
          \/ session' = reset /\ callers' = callers
          \/ \E c \in Callers :
               /\ callers[c] # NoOperation /\ callers'[c] = NoOperation
               /\ session'.operations = Append(session.operations, callers[c])]_vars

\* two calls of different kinds were in flight together, the one started
\* first is still in flight and the other one's entry follows an earlier
\* entry in the ledger
C35_Witness ==
  /\ Len(session.operations) = 2
  /\ session.operations[1].type = "videos"
  /\ session.operations[2].type = "images"
  /\ session.totals.total = 64000
  /\ callers[1].type = "llm"

(***************************************************************************)
(* Claims about asset paths and persistence (SpecPipeline)                 *)
(***************************************************************************)

\* C37: a keyframe or clip generation never writes to a path that holds an
\* asset produced earlier: every file a step writes under keyframes/ or
\* clips/ is new on disk
C37_GenerationNeverReusesPath ==
  [][\A w \in wrote' : w[1] \in {"keyframes", "clips"} => w \notin files]_vars

\* C38: project.json changes only with the answer that ends a request: a
\* batch stage that is under way has not touched it, the stage that ends
\* saves the whole updated shot list, and a request that throws part-way
\* (no answer sent) leaves project.json exactly as it was loaded, whatever
\* asset files the failed run had written
C38_SavedOnlyAfterWholeStage ==
  /\ [][reply'.status # 200 => project' = project]_vars
  /\ [][(ppc # "idle" /\ project' # project) =>
          /\ idx > Len(work.shots)
          /\ ppc' = "idle"
          /\ project'.shots = work.shots]_vars
  /\ [][(ppc # "idle" /\ ppc' = "idle" /\ idx <= Len(work.shots)) =>
          project' = project]_vars

\* a regenerate request wrote the new keyframe of a shot and then threw in
\* the clip generator: the file is on disk and the stored shot shows
\* neither the new version nor a history entry for it
C38_Witness ==
  /\ reply.route = "regenerate" /\ reply.status = 0
  /\ ppc = "idle"
  /\ \E i \in DOMAIN project.shots :
       /\ wrote = {KeyframePath(project.shots[i].id, project.shots[i].keyframe_version + 1)}
       /\ \A k \in DOMAIN project.shots[i].keyframe_versions :
            project.shots[i].keyframe_versions[k].version <= project.shots[i].keyframe_version

=============================================================================
